---- MODULE Spec2Model ----
(***************************************************************************)
(* Verification model of gopherbouncedb: the in-memory reference user      *)
(* store (MemdummyUserStorage), the transactional initialisation of the    *)
(* generic SQL engine (InitUsers / InitSessions) and the SQL engine's      *)
(* mutating operations, each under its own specification.                  *)
(***************************************************************************)
EXTENDS Integers, Sequences, FiniteSets, TLC

(***************************************************************************)
(* Bounds and input domains                                                *)
(***************************************************************************)

\* Largest user id the in-memory store hands out before inserts are cut off.
MaxUsers == 3

\* Largest number of setup statements a query provider returns.
MaxStmts == 4

\* user.go: InvalidUserID = UserID(-1)
InvalidUserID == 0 - 1

Usernames == {"a", "b"}
EMails == {"x", "y"}

\* ID values a caller's model can carry.
ModelIDs == {1, 2}

\* Instants are integers; 0 is the zero instant of time.Time.
ZeroTime == 0
CallerTimes == {ZeroTime}
NowTimes == {2}

\* Field lists a caller passes to UpdateUser (nil / empty slice is << >>).
FieldLists == {<< >>, <<"EMail">>}

\* The fields of UserModel other than ID.
NonIDFields == {"FirstName", "LastName", "Username", "EMail", "Password",
                "IsActive", "IsSuperUser", "IsStaff", "DateJoined", "LastLogin"}

\* UserModel values a caller can build.
UserModels ==
  [ID : ModelIDs, FirstName : {"Foo"}, LastName : {""}, Username : Usernames,
   EMail : EMails, Password : {"p"}, IsActive : {TRUE},
   IsSuperUser : {FALSE}, IsStaff : {FALSE},
   DateJoined : CallerTimes, LastLogin : {ZeroTime}]

(***************************************************************************)
(* State                                                                   *)
(***************************************************************************)
VARIABLES
  idMapping,    \* MemdummyUserStorage.idMapping   : id -> UserModel
  nameMapping,  \* MemdummyUserStorage.nameMapping : username -> UserModel
  mailMapping,  \* MemdummyUserStorage.mailMapping : e-mail -> UserModel
  nextID,       \* MemdummyUserStorage.nextID
  last,         \* the last call on the store: operation, arguments, results
  pristine,     \* id -> model as inserted, for users not updated/deleted since
  held,         \* id -> the usernames and e-mails the stored user has had
  observe,      \* which history is recorded: "calls" (last), "fields" (last
                \* with the field list) or "users" (pristine)
  \* InitUsers / InitSessions of the SQL engine, one run at a time
  initPc,       \* position in the function: idle, begin, loop, rollback, commit, done
  initEngine,   \* "users" (SQLUserStorage) or "sessions" (SQLSessionStorage)
  initQueries,  \* the provider's list of setup statements
  initIdx,      \* index of the next statement of the range loop
  execErr,      \* the local execErr
  initRet,      \* the returned error
  calls,        \* the calls made on the backing store, in order
  txPending,    \* statements executed in the open transaction
  dbApplied,    \* what the backing store holds of the setup statements:
                \* those of earlier runs and those of the current run
                \* (recorded where the store is watched)
  \* the SQL engine's operations
  dbUsers,      \* the users table: rows by id, next auto-increment id
  dbSessions,   \* the sessions table: key -> row
  sqlConf,      \* the bridge and the query provider of the storages
  sqlLast,      \* the last call on SQLUserStorage / SQLSessionStorage
  sqlObserve,   \* what is recorded of a call: "calls" (outcome and result),
                \* "fields" (also the field list) or "models" (also the model)
  sqlModel,     \* the models of the last call: the one a lookup returned,
                \* the caller's before and after an InsertUser
  \* the in-memory session store
  keyMapping,   \* MemdummySessionStorage.keyMapping : key -> SessionEntry
  sessLast,     \* the last call on the MemdummySessionStorage
  live,         \* key -> entry as inserted, for the sessions inserted into
                \* the session storage in use and not removed since
  \* the helpers of the package
  pure,         \* the last call of a function without state: its arguments
                \* and its result
  retry,        \* a call of RetrySessionInsert: position, numTries, the loop
                \* counter i, session.Key, errs, the returned error, and the
                \* calls made on the storage and on GenSessionKey, in order
  tmpl,         \* two SQLTemplateReplacer objects, t and other, the map the
                \* calls on t describe, and the last call on t
  counter,      \* a call of the verifier of PWContainsAll: the position of
                \* ClassCounter, its goroutines, the loop counter i,
                \* numFulfilled and the results
  conc          \* goroutines calling one in-memory store concurrently: the
                \* store, its mutex, each goroutine's call and position, the
                \* calls that returned, and the store a sequential execution
                \* of the calls in the order of their locks gives

memVars == <<idMapping, nameMapping, mailMapping, nextID, last, pristine, held,
            observe>>

initVars == <<initPc, initEngine, initQueries, initIdx, execErr, initRet,
              calls, txPending, dbApplied>>

sqlVars == <<dbUsers, dbSessions, sqlConf, sqlLast, sqlObserve, sqlModel>>

sessVars == <<keyMapping, sessLast, live>>

libVars == <<pure, retry, tmpl, counter, conc>>

vars == <<idMapping, nameMapping, mailMapping, nextID, last, pristine, held, observe,
          initPc, initEngine, initQueries, initIdx, execErr, initRet, calls,
          txPending, dbApplied, dbUsers, dbSessions, sqlConf, sqlLast,
          sqlObserve, sqlModel, keyMapping, sessLast, live, pure, retry, tmpl,
          counter, conc>>

(***************************************************************************)
(* Maps                                                                    *)
(***************************************************************************)
EmptyMap == [k \in {} |-> 0]

MapSet(f, k, v) == [x \in (DOMAIN f) \cup {k} |-> IF x = k THEN v ELSE f[x]]

MapDelete(f, k) == [x \in (DOMAIN f) \ {k} |-> f[x]]

\* The map without the entries whose value satisfies gone.
Without(f, gone(_)) == [k \in {x \in DOMAIN f : ~gone(f[x])} |-> f[k]]

(***************************************************************************)
(* UserModel                                                               *)
(***************************************************************************)
\* UserModel.Copy: a fresh model with every field copied.
Copy(u) ==
  [ID |-> u.ID, FirstName |-> u.FirstName, LastName |-> u.LastName,
   Username |-> u.Username, EMail |-> u.EMail, Password |-> u.Password,
   IsActive |-> u.IsActive, IsSuperUser |-> u.IsSuperUser,
   IsStaff |-> u.IsStaff, DateJoined |-> u.DateJoined,
   LastLogin |-> u.LastLogin]

NoUser == [ID |-> InvalidUserID, FirstName |-> "", LastName |-> "",
           Username |-> "", EMail |-> "", Password |-> "", IsActive |-> FALSE,
           IsSuperUser |-> FALSE, IsStaff |-> FALSE, DateJoined |-> ZeroTime,
           LastLogin |-> ZeroTime]

(***************************************************************************)
(* MemdummyUserStorage                                                     *)
(***************************************************************************)
\* The four fields of a MemdummyUserStorage as one value.
Store(i, n, m, x) ==
  [idMapping |-> i, nameMapping |-> n, mailMapping |-> m, nextID |-> x]

\* NewMemdummyUserStorage
NewMemdummyUserStorage == Store(EmptyMap, EmptyMap, EmptyMap, 1)

\* GetUser: (model, error); nil model is reported as found = FALSE.
GetUser(s, id) ==
  IF id \in DOMAIN s.idMapping
    THEN [found |-> TRUE, user |-> s.idMapping[id], err |-> "nil"]
    ELSE [found |-> FALSE, user |-> NoUser, err |-> "NoSuchUser"]

GetUserByName(s, username) ==
  IF username \in DOMAIN s.nameMapping
    THEN [found |-> TRUE, user |-> s.nameMapping[username], err |-> "nil"]
    ELSE [found |-> FALSE, user |-> NoUser, err |-> "NoSuchUser"]

GetUserByEmail(s, email) ==
  IF email \in DOMAIN s.mailMapping
    THEN [found |-> TRUE, user |-> s.mailMapping[email], err |-> "nil"]
    ELSE [found |-> FALSE, user |-> NoUser, err |-> "NoSuchUser"]

\* InsertUser: result store, returned id, error and the caller's model after
\* the call (ID and DateJoined are written through the pointer).
Memdummy_InsertUser(s, user, now) ==
  IF user.Username \in DOMAIN s.nameMapping
    THEN [store |-> s, id |-> InvalidUserID, err |-> "UserExists", user |-> user]
  ELSE IF user.EMail \in DOMAIN s.mailMapping
    THEN [store |-> s, id |-> InvalidUserID, err |-> "UserExists", user |-> user]
  ELSE
    LET id == s.nextID
        u  == [user EXCEPT !.ID = id, !.DateJoined = now]
    IN [store |-> Store(MapSet(s.idMapping, id, Copy(u)),
                        MapSet(s.nameMapping, u.Username, Copy(u)),
                        MapSet(s.mailMapping, u.EMail, Copy(u)),
                        s.nextID + 1),
        id |-> id, err |-> "nil", user |-> u]

\* UpdateUser: fields is ignored, the whole model is stored.
Memdummy_UpdateUser(s, id, newCredentials, fields) ==
  IF id \notin DOMAIN s.idMapping
    THEN [store |-> s, err |-> "NoSuchUser"]
  ELSE
    LET existing == s.idMapping[id] IN
    IF /\ newCredentials.Username \in DOMAIN s.nameMapping
       /\ s.nameMapping[newCredentials.Username].ID # existing.ID
      THEN [store |-> s, err |-> "AmbiguousCredentials"]
    ELSE IF /\ newCredentials.EMail \in DOMAIN s.mailMapping
            /\ s.mailMapping[newCredentials.EMail].ID # existing.ID
      THEN [store |-> s, err |-> "AmbiguousCredentials"]
    ELSE
      [store |->
         Store(MapSet(s.idMapping, id, Copy(newCredentials)),
               MapSet(MapDelete(s.nameMapping, newCredentials.Username),
                      newCredentials.Username, Copy(newCredentials)),
               MapSet(MapDelete(s.mailMapping, newCredentials.EMail),
                      newCredentials.EMail, Copy(newCredentials)),
               s.nextID),
       err |-> "nil"]

\* DeleteUser that reports an absent id as NoSuchUser.
Memdummy_DeleteUser_AbsentIsError(s, id) ==
  IF id \notin DOMAIN s.idMapping
    THEN [store |-> s, err |-> "NoSuchUser"]
  ELSE
    LET existing == s.idMapping[id] IN
    [store |-> Store(MapDelete(s.idMapping, id),
                     MapDelete(s.nameMapping, existing.Username),
                     MapDelete(s.mailMapping, existing.EMail),
                     s.nextID),
     err |-> "nil"]

\* DeleteUser
Memdummy_DeleteUser(s, id) ==
  IF id \notin DOMAIN s.idMapping
    THEN [store |-> s, err |-> "nil"]
  ELSE
    LET existing == s.idMapping[id] IN
    [store |-> Store(MapDelete(s.idMapping, id),
                     MapDelete(s.nameMapping, existing.Username),
                     MapDelete(s.mailMapping, existing.EMail),
                     s.nextID),
     err |-> "nil"]

\* Clear
Memdummy_Clear(s) == Store(EmptyMap, EmptyMap, EmptyMap, 1)

(***************************************************************************)
(* Errors of the SQL engine                                                *)
(***************************************************************************)
\* Failures the backing store (database/sql and the driver) can report.
BackendErrs == {"e1", "e2"}

Nil == [type |-> "nil"]

\* An error value produced by the backing store, passed on as it is.
BackendErr(e) == [type |-> "backend", err |-> e]

\* NewRollbackErr
NewRollbackErr(initialErr, rollbackErr) ==
  [type |-> "RollbackErr", initialErr |-> initialErr, rollbackErr |-> rollbackErr]

\* fmt.Errorf("commit in database init failed: %w", commitErr)
CommitFailed(commitErr) == [type |-> "commit failed", wrapped |-> commitErr]

(***************************************************************************)
(* SQLUserStorage.InitUsers and SQLSessionStorage.InitSessions             *)
(***************************************************************************)
Engines == {"users", "sessions"}

\* Setup statements a provider can return; "" is an empty statement.
Statements == {"", "s1", "s2"}

SeqsUpTo(S, n) == UNION {[1..k -> S] : k \in 0..n}

QueryLists == SeqsUpTo(Statements, MaxStmts)

\* Outcome of one call on the backing store: "ok" or a failure.
Outcomes == {"ok"} \cup BackendErrs

NonEmpty(queries) == SelectSeq(queries, LAMBDA q : q # "")

Call(name, stmt, outcome) == [call |-> name, stmt |-> stmt, outcome |-> outcome]

\* tx, err := db.Begin(); if err != nil { return err }
BeginStep(outcome) ==
  IF outcome = "ok"
    THEN [pc |-> "loop", ret |-> Nil]
    ELSE [pc |-> "done", ret |-> BackendErr(outcome)]

\* LoopStep without the break: the loop goes on after a failing statement.
LoopStep_NoBreak(queries, idx, outcome) ==
  IF queries[idx] = ""
    THEN [sent |-> FALSE, idx |-> idx + 1, execErr |-> Nil, break |-> FALSE]
  ELSE IF outcome = "ok"
    THEN [sent |-> TRUE, idx |-> idx + 1, execErr |-> Nil, break |-> FALSE]
  ELSE [sent |-> TRUE, idx |-> idx + 1, execErr |-> BackendErr(outcome),
        break |-> FALSE]

\* One iteration of the range loop over the setup statements: an empty
\* statement is skipped, a failing one sets execErr and leaves the loop.
LoopStep(queries, idx, outcome) ==
  IF queries[idx] = ""
    THEN [sent |-> FALSE, idx |-> idx + 1, execErr |-> Nil, break |-> FALSE]
  ELSE IF outcome = "ok"
    THEN [sent |-> TRUE, idx |-> idx + 1, execErr |-> Nil, break |-> FALSE]
  ELSE [sent |-> TRUE, idx |-> idx, execErr |-> BackendErr(outcome), break |-> TRUE]

\* AfterLoop that commits whatever execErr holds.
AfterLoop_AlwaysCommit(err) == "commit"

\* After the loop: if execErr != nil the transaction is rolled back,
\* otherwise it is committed.
AfterLoop(err) == IF err # Nil THEN "rollback" ELSE "commit"

\* RollbackStep that reports only the rollback failure.
RollbackStep_DropsInitial(err, outcome) ==
  IF outcome # "ok" THEN BackendErr(outcome) ELSE err

\* if rollbackErr := tx.Rollback(); rollbackErr != nil {
\*   return NewRollbackErr(execErr, rollbackErr) }; return execErr
RollbackStep(err, outcome) ==
  IF outcome # "ok" THEN NewRollbackErr(err, BackendErr(outcome)) ELSE err

\* if commitErr := tx.Commit(); commitErr != nil { return fmt.Errorf(...) }
CommitStep(outcome) ==
  IF outcome # "ok" THEN CommitFailed(BackendErr(outcome)) ELSE Nil

\* The backing store before the first run: it holds no setup statement.
\* earlier is the set of statements of earlier runs whose effects it holds,
\* run the statements of the current run whose effects it holds.
NoStore == [watched |-> FALSE, earlier |-> {}, run |-> << >>]

\* The store when a new run starts: what it holds is kept.
StoreAtCall(db) ==
  IF db.watched
    THEN [db EXCEPT !.earlier = @ \cup {db.run[i] : i \in DOMAIN db.run},
                    !.run = << >>]
    ELSE db

\* What the store can hold of the transaction's statements after
\* tx.Rollback(): nothing after a rollback that succeeded; after one that
\* reported a failure Init does not learn what became of them.
AfterRollback(pending, outcome) ==
  IF outcome = "ok" THEN {<< >>} ELSE {<< >>, pending}

\* What the store can hold of the transaction's statements after
\* tx.Commit(): all of them after a commit that succeeded; after one that
\* reported a failure the transaction was applied or it was not.
AfterCommit(pending, outcome) ==
  IF outcome = "ok" THEN {pending} ELSE {<< >>, pending}

\* The store after the transaction ended with kept.
StoreAfter(db, kept) == IF db.watched THEN [db EXCEPT !.run = kept] ELSE db

\* The statement lists of the providers and the outcomes of the calls on
\* the backing store: where the store is watched, the lists in which no
\* statement is repeated and one kind of failure.
PassedQueryLists ==
  IF dbApplied.watched
    THEN {q \in QueryLists :
            \A i, j \in DOMAIN q : (q[i] = q[j] /\ q[i] # "") => i = j}
    ELSE QueryLists

PassedOutcomes ==
  IF dbApplied.watched THEN {"ok", "e1"} ELSE Outcomes

InitIdle ==
  /\ initPc = "idle"
  /\ initEngine = "users"
  /\ initQueries = << >>
  /\ initIdx = 1
  /\ execErr = Nil
  /\ initRet = Nil
  /\ calls = << >>
  /\ txPending = << >>
  /\ dbApplied = NoStore

\* A call of InitUsers or InitSessions; the backing store keeps what it
\* holds.
InitCall(e) ==
  /\ initPc \in {"idle", "done"}
  /\ \E queries \in PassedQueryLists : initQueries' = queries
  /\ initEngine' = e
  /\ initPc' = "begin"
  /\ initIdx' = 1
  /\ execErr' = Nil
  /\ initRet' = Nil
  /\ calls' = << >>
  /\ txPending' = << >>
  /\ dbApplied' = StoreAtCall(dbApplied)
  /\ UNCHANGED <<memVars, sqlVars, sessVars, libVars>>

InitBegin(e) ==
  /\ initEngine = e
  /\ initPc = "begin"
  /\ \E outcome \in PassedOutcomes :
       LET r == BeginStep(outcome) IN
       /\ initPc' = r.pc
       /\ initRet' = r.ret
       /\ calls' = Append(calls, Call("Begin", "", outcome))
  /\ UNCHANGED <<initEngine, initQueries, initIdx, execErr, txPending, dbApplied>>
  /\ UNCHANGED <<memVars, sqlVars, sessVars, libVars>>

InitLoop(e) ==
  /\ initEngine = e
  /\ initPc = "loop"
  /\ initIdx <= Len(initQueries)
  /\ \E outcome \in PassedOutcomes :
       LET r == LoopStep(initQueries, initIdx, outcome) IN
       /\ initIdx' = r.idx
       /\ execErr' = r.execErr
       /\ initPc' = IF r.break THEN AfterLoop(r.execErr) ELSE "loop"
       /\ calls' = IF r.sent
                     THEN Append(calls, Call("Exec", initQueries[initIdx], outcome))
                     ELSE calls
       /\ txPending' = IF r.sent /\ outcome = "ok"
                         THEN Append(txPending, initQueries[initIdx])
                         ELSE txPending
  /\ UNCHANGED <<initEngine, initQueries, initRet, dbApplied>>
  /\ UNCHANGED <<memVars, sqlVars, sessVars, libVars>>

InitLoopEnd(e) ==
  /\ initEngine = e
  /\ initPc = "loop"
  /\ initIdx > Len(initQueries)
  /\ initPc' = AfterLoop(execErr)
  /\ UNCHANGED <<initEngine, initQueries, initIdx, execErr, initRet, calls,
                 txPending, dbApplied>>
  /\ UNCHANGED <<memVars, sqlVars, sessVars, libVars>>

\* Rollback: the error, if any, is returned; what the store keeps is the
\* store's answer.
InitRollback(e) ==
  /\ initEngine = e
  /\ initPc = "rollback"
  /\ \E outcome \in PassedOutcomes :
       /\ initRet' = RollbackStep(execErr, outcome)
       /\ calls' = Append(calls, Call("Rollback", "", outcome))
       /\ \E kept \in AfterRollback(txPending, outcome) :
            dbApplied' = StoreAfter(dbApplied, kept)
  /\ txPending' = << >>
  /\ initPc' = "done"
  /\ UNCHANGED <<initEngine, initQueries, initIdx, execErr>>
  /\ UNCHANGED <<memVars, sqlVars, sessVars, libVars>>

\* Commit: the error, if any, is returned wrapped; what the store keeps is
\* the store's answer.
InitCommit(e) ==
  /\ initEngine = e
  /\ initPc = "commit"
  /\ \E outcome \in PassedOutcomes :
       /\ initRet' = CommitStep(outcome)
       /\ calls' = Append(calls, Call("Commit", "", outcome))
       /\ \E kept \in AfterCommit(txPending, outcome) :
            dbApplied' = StoreAfter(dbApplied, kept)
  /\ txPending' = << >>
  /\ initPc' = "done"
  /\ UNCHANGED <<initEngine, initQueries, initIdx, execErr>>
  /\ UNCHANGED <<memVars, sqlVars, sessVars, libVars>>

\* The body shared by InitUsers and InitSessions, for engine e.
InitRun(e) ==
  \/ InitCall(e)
  \/ InitBegin(e)
  \/ InitLoop(e)
  \/ InitLoopEnd(e)
  \/ InitRollback(e)
  \/ InitCommit(e)

InitUsers == InitRun("users")

InitSessions == InitRun("sessions")

NextInit == InitUsers \/ InitSessions

(***************************************************************************)
(* SQL engine: statements, parameters and the backing tables               *)
(***************************************************************************)
\* Largest id the auto-increment of the users table hands out before
\* inserts are cut off.
MaxRows == 2

SessionKeys == {"k1", "k2"}

\* SessionEntry values a caller can build.
SessionEntries == [Key : SessionKeys, User : {1}, ExpireDate : {5}]

\* Owners and expire dates of the sessions that are swept, and the reference
\* dates of the sweeps: before, at and after the earlier expire date.
SessionUsers == {1, 2}
ExpireDates == {4, 5}
RefDates == {3, 4, 5}

\* Field lists a caller passes to SQLUserStorage.UpdateUser.
SQLFieldLists == FieldLists \cup {<<"username">>, <<"Bogus">>}

\* Further field lists: the ID field in two letter cases, and a name that is
\* no field after one that is.
IDFieldLists == {<<"id">>, <<"ID">>, <<"EMail", "Bogus">>}

\* Field lists and models of updates whose parameters are recorded: names
\* in two letter cases, the two time fields, two fields in an order that is
\* not the default one, and models whose fields differ.
LayoutFieldLists ==
  {<< >>, <<"LastName", "EMail">>, <<"DateJoined", "lastlogin">>,
   <<"isstaff", "IsActive">>, <<"Bogus">>}

LayoutModels ==
  {[ID |-> 1, FirstName |-> "Foo", LastName |-> "Bar", Username |-> "a",
    EMail |-> "x", Password |-> "p", IsActive |-> TRUE, IsSuperUser |-> FALSE,
    IsStaff |-> FALSE, DateJoined |-> 1, LastLogin |-> 3],
   [ID |-> 2, FirstName |-> "Foo", LastName |-> "Bar", Username |-> "b",
    EMail |-> "y", Password |-> "p", IsActive |-> FALSE, IsSuperUser |-> FALSE,
    IsStaff |-> TRUE, DateJoined |-> 3, LastLogin |-> 1]}

\* The two duplicate tests of an SQLBridge, as the sets of backend failures
\* they accept: a bridge with one test for both, and one that tells them apart.
Bridges == {[IsDuplicateInsert |-> {"e1"}, IsDuplicateUpdate |-> {"e1"}],
            [IsDuplicateInsert |-> {"e1"}, IsDuplicateUpdate |-> {"e2"}]}

\* What a storage is constructed with: a bridge and a query provider, and
\* which of the two storages it is (SQLUserStorage or SQLSessionStorage).
SQLConfs == [bridge : Bridges, SupportsUserFields : BOOLEAN,
             storage : {"users", "sessions"}]

\* SQLBridge.ConvertTime: the driver's encoding of an instant.
ConvertTime(t) == [sqlTime |-> t]

\* strings.ToLower on the strings used as field names; a name without an
\* upper-case letter is its own lower-case form.
LowerCase ==
  ("ID" :> "id") @@ ("FirstName" :> "firstname") @@ ("LastName" :> "lastname")
  @@ ("Username" :> "username") @@ ("EMail" :> "email")
  @@ ("Password" :> "password") @@ ("IsActive" :> "isactive")
  @@ ("IsSuperUser" :> "issuperuser") @@ ("IsStaff" :> "isstaff")
  @@ ("DateJoined" :> "datejoined") @@ ("LastLogin" :> "lastlogin")
  @@ ("Bogus" :> "bogus")

ToLower(name) == IF name \in DOMAIN LowerCase THEN LowerCase[name] ELSE name

\* The cases of the switch in GetFieldByName: lower-case name -> field.
FieldCases ==
  ("id" :> "ID") @@ ("firstname" :> "FirstName") @@ ("lastname" :> "LastName")
  @@ ("username" :> "Username") @@ ("email" :> "EMail")
  @@ ("password" :> "Password") @@ ("isactive" :> "IsActive")
  @@ ("issuperuser" :> "IsSuperUser") @@ ("isstaff" :> "IsStaff")
  @@ ("datejoined" :> "DateJoined") @@ ("lastlogin" :> "LastLogin")

\* UserModel.GetFieldByName
GetFieldByName(u, name) ==
  IF ToLower(name) \in DOMAIN FieldCases
    THEN [val |-> u[FieldCases[ToLower(name)]], err |-> "nil"]
    ELSE [val |-> "", err |-> "invalid field name"]

\* A prepareUpdateArgs that prepares the parameters for all fields whatever
\* fields it is given.
prepareUpdateArgs_AllFields(id, u, fields) ==
  [res |-> <<u.Username, u.Password, u.EMail, u.FirstName, u.LastName,
             u.IsSuperUser, u.IsStaff, u.IsActive,
             ConvertTime(u.DateJoined), ConvertTime(u.LastLogin), id>>,
   err |-> "nil"]

\* SQLUserStorage.prepareUpdateArgs; time values are instants, so UTC()
\* leaves them as they are, and a UserModel's DateJoined and LastLogin are
\* always time values.
prepareUpdateArgs(id, u, fields) ==
  IF Len(fields) = 0
    THEN [res |-> <<u.Username, u.Password, u.EMail, u.FirstName, u.LastName,
                    u.IsSuperUser, u.IsStaff, u.IsActive,
                    ConvertTime(u.DateJoined), ConvertTime(u.LastLogin), id>>,
          err |-> "nil"]
    ELSE LET bad == {i \in 1..Len(fields) :
                       GetFieldByName(u, fields[i]).err # "nil"}
             arg(i) == IF ToLower(fields[i]) \in {"datejoined", "lastlogin"}
                         THEN ConvertTime(GetFieldByName(u, fields[i]).val)
                         ELSE GetFieldByName(u, fields[i]).val
         IN IF bad # {}
              THEN [res |-> << >>, err |-> "invalid field name"]
              ELSE [res |-> [i \in 1..(Len(fields) + 1) |->
                               IF i <= Len(fields) THEN arg(i) ELSE id],
                    err |-> "nil"]

\* Errors the SQL engine builds.
NewUserExists(cause) == [type |-> "UserExists", cause |-> cause]

NewAmbiguousCredentials(cause) == [type |-> "AmbiguousCredentials", cause |-> cause]

NewNotSupported(cause) == [type |-> "NotSupported", cause |-> cause]

NewSessionExistsKey(key) == [type |-> "SessionExists", key |-> key]

\* fmt.Errorf("can't prepare user update arguments: %s", argsErr.Error())
PrepareFailed(argsErr) == [type |-> "prepare failed", cause |-> argsErr]

\* The statements of the query providers: the query and, for UpdateUser, the
\* field list the provider was asked for.
Stmt(q, fields) == [q |-> q, fields |-> fields]

\* Parameter order of the statements that write all ten columns.
DefaultColumns == <<"Username", "Password", "EMail", "FirstName", "LastName",
                    "IsSuperUser", "IsStaff", "IsActive", "DateJoined",
                    "LastLogin">>

\* The columns a statement UpdateUser(fields) sets, in parameter order.
Columns(fields) ==
  IF Len(fields) = 0 THEN DefaultColumns
  ELSE [i \in 1..Len(fields) |-> FieldCases[ToLower(fields[i])]]

\* The users table: rows by id and the next auto-increment id.
EmptyUsers == [rows |-> EmptyMap, nextID |-> 1]

\* A row other than the one with id except has the username or the e-mail.
Taken(rows, except, name, mail) ==
  \E j \in (DOMAIN rows) \ {except} :
    rows[j].Username = name \/ rows[j].EMail = mail

\* The row after SET cols[i] = args[i] for i = 1 .. n.
RECURSIVE SetFirst(_, _, _, _)
SetFirst(row, cols, args, n) ==
  IF n = 0 THEN row
  ELSE [SetFirst(row, cols, args, n - 1) EXCEPT ![cols[n]] = args[n]]

\* The row after SET cols[i] = args[i] for every i.
SetColumns(row, cols, args) == SetFirst(row, cols, args, Len(cols))

\* The result of a call that did not reach the backing store.
NoExec == [rows |-> 0, lastID |-> 0, err |-> "ok"]

\* A statement that breaks the uniqueness of the id, Username or EMail in
\* the users table, or of the key in the sessions table: the backing store
\* cannot execute it without error.
Violates(users, sessions, stmt, args) ==
  CASE stmt.q = "InsertUser" -> Taken(users.rows, 0, args[1], args[3])
    [] stmt.q = "UpdateUser" ->
         /\ args[Len(args)] \in DOMAIN users.rows
         /\ LET new == SetColumns(users.rows[args[Len(args)]],
                                  Columns(stmt.fields), args)
            IN \/ Taken(users.rows, args[Len(args)], new.Username, new.EMail)
               \/ new.ID \in (DOMAIN users.rows) \ {args[Len(args)]}
    [] stmt.q = "InsertSession" -> args[1] \in DOMAIN sessions
    [] OTHER -> FALSE

\* UserDB.Exec(stmt, args...) with outcome fail ("ok" or the failure the
\* backing store reports). A statement that fails changes nothing; one that
\* succeeds reports the number of rows it affected.
ExecUsers(db, stmt, args, fail) ==
  LET Failed(e) == [db |-> db, rows |-> 0, lastID |-> 0, err |-> e]
      Done(rows, n, lastID) ==
        [db |-> [db EXCEPT !.rows = rows], rows |-> n, lastID |-> lastID,
         err |-> "ok"]
      id == args[Len(args)]
  IN IF fail # "ok" THEN Failed(fail)
     ELSE CASE stmt.q = "InsertUser" ->
                 [db |-> [rows |-> MapSet(db.rows, db.nextID,
                                 SetColumns([NoUser EXCEPT !.ID = db.nextID],
                                            DefaultColumns, args)),
                               nextID |-> db.nextID + 1],
                       rows |-> 1, lastID |-> db.nextID, err |-> "ok"]
            [] stmt.q = "UpdateUser" ->
                 IF id \notin DOMAIN db.rows THEN Done(db.rows, 0, 0)
                 ELSE LET new == SetColumns(db.rows[id], Columns(stmt.fields),
                                            args)
                      IN Done(MapSet(MapDelete(db.rows, id), new.ID, new), 1, 0)
            [] stmt.q = "DeleteUser" ->
                 IF id \in DOMAIN db.rows
                   THEN Done(MapDelete(db.rows, id), 1, 0)
                   ELSE Done(db.rows, 0, 0)

\* SessionDB.Exec(stmt, args...) on the sessions table (key -> row).
ExecSessions(db, stmt, args, fail) ==
  LET Failed(e) == [db |-> db, rows |-> 0, err |-> e] IN
  IF fail # "ok" THEN Failed(fail)
  ELSE CASE stmt.q = "InsertSession" ->
              [db |-> MapSet(db, args[1], [Key |-> args[1], User |-> args[2],
                                           ExpireDate |-> args[3]]),
               rows |-> 1, err |-> "ok"]
         [] stmt.q = "DeleteSession" ->
              IF args[1] \in DOMAIN db
                THEN [db |-> MapDelete(db, args[1]), rows |-> 1, err |-> "ok"]
                ELSE [db |-> db, rows |-> 0, err |-> "ok"]
         [] stmt.q = "CleanUpSession" ->
              LET gone == {k \in DOMAIN db :
                             db[k].ExpireDate.sqlTime <= args[1].sqlTime}
              IN [db |-> [k \in (DOMAIN db) \ gone |-> db[k]],
                  rows |-> Cardinality(gone), err |-> "ok"]
         [] stmt.q = "DeleteForUserSession" ->
              LET gone == {k \in DOMAIN db : db[k].User = args[1]}
              IN [db |-> [k \in (DOMAIN db) \ gone |-> db[k]],
                  rows |-> Cardinality(gone), err |-> "ok"]

(***************************************************************************)
(* SessionEntry and MemdummySessionStorage                                 *)
(***************************************************************************)
\* Keys, owners and expire dates of the sessions kept in memory: three
\* sessions of three users that expire one after the other.
MemKeys == {"A", "B", "C"}
MemOwners == {<<1, 1>>, <<2, 2>>, <<3, 4>>}
MemEntries == {[Key |-> k, User |-> o[1], ExpireDate |-> o[2]] :
                 k \in MemKeys, o \in MemOwners}

\* Reference dates of the sweeps: the second expire date, and an instant
\* between the second and the third.
MemRefDates == {2, 3}

\* The nil *SessionEntry.
NoEntry == [Key |-> "", User |-> InvalidUserID, ExpireDate |-> ZeroTime]

\* SessionEntry.Copy
SessionCopy(s) == [Key |-> s.Key, User |-> s.User, ExpireDate |-> s.ExpireDate]

\* An IsValid that takes a session to be valid at its ExpireDate.
IsValid_AtExpireDate(s, referenceDate) == referenceDate <= s.ExpireDate

\* An IsValid that holds when the ExpireDate is before the reference date.
IsValid_Reversed(s, referenceDate) == s.ExpireDate < referenceDate

\* SessionEntry.IsValid: the reference date is before the ExpireDate.
IsValid(s, referenceDate) == referenceDate < s.ExpireDate

NewNoSuchSessionKey(key) == [type |-> "NoSuchSession", key |-> key]

\* NewMemdummySessionStorage, and Clear, which installs a new map.
NewMemdummySessionStorage == EmptyMap

MemdummySession_Clear(m) == EmptyMap

\* An InsertSession that stores the entry whether or not the key is stored.
MemdummySession_InsertSession_Overwrites(m, session) ==
  [keyMapping |-> MapSet(m, session.Key, SessionCopy(session)),
   err |-> IF session.Key \in DOMAIN m THEN NewSessionExistsKey(session.Key)
                                       ELSE Nil]

\* MemdummySessionStorage.InsertSession
MemdummySession_InsertSession(m, session) ==
  IF session.Key \in DOMAIN m
    THEN [keyMapping |-> m, err |-> NewSessionExistsKey(session.Key)]
    ELSE [keyMapping |-> MapSet(m, session.Key, SessionCopy(session)),
          err |-> Nil]

\* MemdummySessionStorage.GetSession; found = FALSE is the nil entry.
MemdummySession_GetSession(m, key) ==
  IF key \in DOMAIN m
    THEN [found |-> TRUE, entry |-> m[key], err |-> Nil]
    ELSE [found |-> FALSE, entry |-> NoEntry, err |-> NewNoSuchSessionKey(key)]

\* A DeleteSession that reports a key that is not stored as NoSuchSession.
MemdummySession_DeleteSession_AbsentIsError(m, key) ==
  [keyMapping |-> MapDelete(m, key),
   err |-> IF key \in DOMAIN m THEN Nil ELSE NewNoSuchSessionKey(key)]

\* MemdummySessionStorage.DeleteSession
MemdummySession_DeleteSession(m, key) ==
  [keyMapping |-> MapDelete(m, key), err |-> Nil]

\* MemdummySessionStorage.CleanUp: the range loop deletes every entry that is
\* not valid at the reference date and counts the deletes.
MemdummySession_CleanUp(m, referenceDate) ==
  LET gone == {k \in DOMAIN m : ~IsValid(m[k], referenceDate)}
  IN [keyMapping |-> [k \in (DOMAIN m) \ gone |-> m[k]],
      n |-> Cardinality(gone), err |-> Nil]

\* A DeleteForUser that counts every entry the loop visits.
MemdummySession_DeleteForUser_CountsVisited(m, user) ==
  LET gone == {k \in DOMAIN m : m[k].User = user}
  IN [keyMapping |-> [k \in (DOMAIN m) \ gone |-> m[k]],
      n |-> Cardinality(DOMAIN m), err |-> Nil]

\* MemdummySessionStorage.DeleteForUser
MemdummySession_DeleteForUser(m, user) ==
  LET gone == {k \in DOMAIN m : m[k].User = user}
  IN [keyMapping |-> [k \in (DOMAIN m) \ gone |-> m[k]],
      n |-> Cardinality(gone), err |-> Nil]

(***************************************************************************)
(* SQLUserStorage and SQLSessionStorage operations                         *)
(***************************************************************************)
\* What an operation did and returned: the table after it, whether Exec was
\* called, with which statement and parameters, what Exec reported, and the
\* returned error.
Returned(db, sent, stmt, args, exec, err) ==
  [db |-> db, sent |-> sent, stmt |-> stmt, args |-> args, exec |-> exec,
   err |-> err]

\* An InsertUser that hands the generated id to the model before it asks the
\* result for it, and so leaves it there when the id cannot be reported.
SQLUserStorage_InsertUser_KeepsID(conf, db, user, now, fail, idErr) ==
  LET stamped == [user EXCEPT !.ID = InvalidUserID, !.DateJoined = now,
                              !.LastLogin = ZeroTime]
      stmt == Stmt("InsertUser", << >>)
      args == <<user.Username, user.Password, user.EMail, user.FirstName,
                user.LastName, user.IsSuperUser, user.IsStaff, user.IsActive,
                ConvertTime(now), ConvertTime(ZeroTime)>>
      r == ExecUsers(db, stmt, args, fail)
      Ret(id, err, u) ==
        [db |-> r.db, sent |-> TRUE, stmt |-> stmt, args |-> args, exec |-> r,
         err |-> err, id |-> id, user |-> u]
  IN IF r.err # "ok"
       THEN Ret(InvalidUserID,
                IF r.err \in conf.bridge.IsDuplicateInsert
                  THEN NewUserExists(r.err) ELSE BackendErr(r.err),
                stamped)
       ELSE IF idErr # "ok"
         THEN Ret(InvalidUserID, NewNotSupported(idErr),
                  [stamped EXCEPT !.ID = db.nextID])
         ELSE Ret(r.lastID, Nil, [stamped EXCEPT !.ID = r.lastID])

\* SQLUserStorage.InsertUser; fail is the outcome of Exec, idErr the outcome
\* of LastInsertId. The result also has the returned id and the caller's
\* model after the call.
SQLUserStorage_InsertUser(conf, db, user, now, fail, idErr) ==
  LET stamped == [user EXCEPT !.ID = InvalidUserID, !.DateJoined = now,
                              !.LastLogin = ZeroTime]
      stmt == Stmt("InsertUser", << >>)
      args == <<user.Username, user.Password, user.EMail, user.FirstName,
                user.LastName, user.IsSuperUser, user.IsStaff, user.IsActive,
                ConvertTime(now), ConvertTime(ZeroTime)>>
      r == ExecUsers(db, stmt, args, fail)
      Ret(id, err, u) ==
        [db |-> r.db, sent |-> TRUE, stmt |-> stmt, args |-> args, exec |-> r,
         err |-> err, id |-> id, user |-> u]
  IN IF r.err # "ok"
       THEN Ret(InvalidUserID,
                IF r.err \in conf.bridge.IsDuplicateInsert
                  THEN NewUserExists(r.err) ELSE BackendErr(r.err),
                stamped)
       ELSE IF idErr # "ok"
         THEN Ret(InvalidUserID, NewNotSupported(idErr), stamped)
         ELSE Ret(r.lastID, Nil, [stamped EXCEPT !.ID = r.lastID])

\* An UpdateUser that, when the parameters cannot be prepared, sends the
\* statement for all fields instead of returning.
SQLUserStorage_UpdateUser_SendsAnyway(conf, db, id, newCredentials, fields, fail) ==
  LET asked == IF conf.SupportsUserFields THEN fields ELSE << >>
      a == prepareUpdateArgs(id, newCredentials, asked)
      stmt == Stmt("UpdateUser", IF a.err # "nil" THEN << >> ELSE asked)
      args == IF a.err # "nil" THEN prepareUpdateArgs(id, newCredentials, << >>).res
                               ELSE a.res
      r == ExecUsers(db, stmt, args, fail)
  IN IF r.err # "ok"
       THEN Returned(r.db, TRUE, stmt, args, r,
                     IF r.err \in conf.bridge.IsDuplicateUpdate
                       THEN NewAmbiguousCredentials(r.err)
                       ELSE BackendErr(r.err))
       ELSE Returned(r.db, TRUE, stmt, args, r, Nil)

\* SQLUserStorage.UpdateUser
SQLUserStorage_UpdateUser(conf, db, id, newCredentials, fields, fail) ==
  LET asked == IF conf.SupportsUserFields THEN fields ELSE << >>
      stmt == Stmt("UpdateUser", asked)
      a == prepareUpdateArgs(id, newCredentials, asked)
      r == ExecUsers(db, stmt, a.res, fail)
  IN IF a.err # "nil"
       THEN Returned(db, FALSE, stmt, << >>, NoExec, PrepareFailed(a.err))
       ELSE IF r.err # "ok"
         THEN Returned(r.db, TRUE, stmt, a.res, r,
                       IF r.err \in conf.bridge.IsDuplicateUpdate
                         THEN NewAmbiguousCredentials(r.err)
                         ELSE BackendErr(r.err))
         ELSE Returned(r.db, TRUE, stmt, a.res, r, Nil)

\* A DeleteUser that reports a delete of no row as NoSuchUser.
SQLUserStorage_DeleteUser_ZeroRowsIsError(db, id, fail) ==
  LET r == ExecUsers(db, Stmt("DeleteUser", << >>), <<id>>, fail) IN
  Returned(r.db, TRUE, Stmt("DeleteUser", << >>), <<id>>, r,
           IF r.err # "ok" THEN BackendErr(r.err)
           ELSE IF r.rows = 0 THEN [type |-> "NoSuchUser"] ELSE Nil)

\* A DeleteUser that sends the statement a second time when the first
\* attempt failed, and reports what the second attempt, which succeeds,
\* reported.
SQLUserStorage_DeleteUser_Retries(db, id, fail) ==
  LET r == ExecUsers(db, Stmt("DeleteUser", << >>), <<id>>, fail)
      again == ExecUsers(db, Stmt("DeleteUser", << >>), <<id>>, "ok")
  IN IF r.err # "ok"
       THEN Returned(again.db, TRUE, Stmt("DeleteUser", << >>), <<id>>, r, Nil)
       ELSE Returned(r.db, TRUE, Stmt("DeleteUser", << >>), <<id>>, r, Nil)

\* SQLUserStorage.DeleteUser
SQLUserStorage_DeleteUser(db, id, fail) ==
  LET r == ExecUsers(db, Stmt("DeleteUser", << >>), <<id>>, fail) IN
  Returned(r.db, TRUE, Stmt("DeleteUser", << >>), <<id>>, r,
           IF r.err # "ok" THEN BackendErr(r.err) ELSE Nil)

\* SQLBridge.ConvertTimeScanType on a value the driver scanned: the instant
\* the driver's encoding stands for.
ConvertTimeScanType(v) == v.sqlTime

\* NewNoSuchUserID, NewNoSuchUserUsername, NewNoSuchUserMail
NewNoSuchUserID(id) == [type |-> "NoSuchUser", by |-> "id", key |-> id]

NewNoSuchUserUsername(username) ==
  [type |-> "NoSuchUser", by |-> "username", key |-> username]

NewNoSuchUserMail(email) == [type |-> "NoSuchUser", by |-> "email", key |-> email]

\* UserDB.QueryRow(stmt, arg) followed by Scan: fail is the failure of the
\* query ("ok" for none). A query that does not fail reports sql.ErrNoRows
\* when no row of the table has the value, and the row otherwise.
QueryRow(db, stmt, arg, fail) ==
  LET col == CASE stmt.q = "GetUser" -> "ID"
               [] stmt.q = "GetUserByName" -> "Username"
               [] stmt.q = "GetUserByEmail" -> "EMail"
      hits == {i \in DOMAIN db.rows : db.rows[i][col] = arg}
  IN IF fail # "ok" THEN [err |-> fail, row |-> NoUser]
     ELSE IF hits = {} THEN [err |-> "ErrNoRows", row |-> NoUser]
     ELSE [err |-> "ok", row |-> db.rows[CHOOSE i \in hits : TRUE]]

\* A lookup that returns the model it has built when a time cannot be
\* converted.
scanUser_KeepsModel(row, noUser, djErr, llErr) ==
  LET None(err) == [found |-> FALSE, user |-> NoUser, err |-> err] IN
  CASE row.err = "ErrNoRows" -> None(noUser)
    [] row.err \notin {"ok", "ErrNoRows"} -> None(BackendErr(row.err))
    [] OTHER ->
         [found |-> TRUE,
          user |-> [row.row EXCEPT
                      !.DateJoined = IF djErr # "ok" THEN ZeroTime
                                     ELSE ConvertTimeScanType(@),
                      !.LastLogin = IF llErr # "ok" THEN ZeroTime
                                    ELSE ConvertTimeScanType(@)],
          err |-> IF djErr # "ok" THEN BackendErr(djErr)
                  ELSE IF llErr # "ok" THEN BackendErr(llErr) ELSE Nil]

\* SQLUserStorage.scanUser: row is what QueryRow and Scan report, noUser the
\* error for no row, djErr and llErr the outcomes of ConvertTimeScanType on
\* the two scanned times. found = FALSE is the nil model.
scanUser(row, noUser, djErr, llErr) ==
  LET None(err) == [found |-> FALSE, user |-> NoUser, err |-> err] IN
  CASE row.err = "ErrNoRows" -> None(noUser)
    [] row.err \notin {"ok", "ErrNoRows"} -> None(BackendErr(row.err))
    [] djErr # "ok" -> None(BackendErr(djErr))
    [] llErr # "ok" -> None(BackendErr(llErr))
    [] OTHER ->
         [found |-> TRUE,
          user |-> [row.row EXCEPT
                      !.DateJoined = ConvertTimeScanType(@),
                      !.LastLogin = ConvertTimeScanType(@)],
          err |-> Nil]

\* SQLUserStorage.GetUser
SQLUserStorage_GetUser(db, id, fail, djErr, llErr) ==
  scanUser(QueryRow(db, Stmt("GetUser", << >>), id, fail),
           NewNoSuchUserID(id), djErr, llErr)

\* SQLUserStorage.GetUserByName
SQLUserStorage_GetUserByName(db, username, fail, djErr, llErr) ==
  scanUser(QueryRow(db, Stmt("GetUserByName", << >>), username, fail),
           NewNoSuchUserUsername(username), djErr, llErr)

\* SQLUserStorage.GetUserByEmail
SQLUserStorage_GetUserByEmail(db, email, fail, djErr, llErr) ==
  scanUser(QueryRow(db, Stmt("GetUserByEmail", << >>), email, fail),
           NewNoSuchUserMail(email), djErr, llErr)

\* SQLSessionStorage.InsertSession
SQLSessionStorage_InsertSession(conf, db, session, fail) ==
  LET stmt == Stmt("InsertSession", << >>)
      args == <<session.Key, session.User, ConvertTime(session.ExpireDate)>>
      r == ExecSessions(db, stmt, args, fail)
  IN IF r.err # "ok"
       THEN Returned(r.db, TRUE, stmt, args, r,
                     IF r.err \in conf.bridge.IsDuplicateUpdate
                       THEN NewSessionExistsKey(session.Key)
                       ELSE BackendErr(r.err))
       ELSE Returned(r.db, TRUE, stmt, args, r, Nil)

\* SessionDB.QueryRow(GetSession(), key) followed by Scan: sql.ErrNoRows
\* when the query does not fail and no row has the key.
QuerySession(db, key, fail) ==
  IF fail # "ok" THEN [err |-> fail, row |-> NoEntry]
  ELSE IF key \notin DOMAIN db THEN [err |-> "ErrNoRows", row |-> NoEntry]
  ELSE [err |-> "ok", row |-> db[key]]

\* SQLSessionStorage.GetSession: fail is the failure of the query, edErr the
\* outcome of ConvertTimeScanType on the scanned expire date.
SQLSessionStorage_GetSession(db, key, fail, edErr) ==
  LET row == QuerySession(db, key, fail)
      None(err) == [found |-> FALSE, entry |-> NoEntry, err |-> err]
  IN CASE row.err = "ErrNoRows" -> None(NewNoSuchSessionKey(key))
       [] row.err \notin {"ok", "ErrNoRows"} -> None(BackendErr(row.err))
       [] edErr # "ok" -> None(BackendErr(edErr))
       [] OTHER ->
            [found |-> TRUE,
             entry |-> [Key |-> row.row.Key, User |-> row.row.User,
                        ExpireDate |-> ConvertTimeScanType(row.row.ExpireDate)],
             err |-> Nil]

\* SQLSessionStorage.DeleteSession
SQLSessionStorage_DeleteSession(db, key, fail) ==
  LET r == ExecSessions(db, Stmt("DeleteSession", << >>), <<key>>, fail) IN
  Returned(r.db, TRUE, Stmt("DeleteSession", << >>), <<key>>, r,
           IF r.err # "ok" THEN BackendErr(r.err) ELSE Nil)

\* The (count, error) of CleanUp and DeleteForUser after Exec reported r:
\* affErr is the outcome of RowsAffected, which reports no count when it
\* fails.
Swept(stmt, args, r, affErr) ==
  LET Ret(n, err) ==
        [db |-> r.db, sent |-> TRUE, stmt |-> stmt, args |-> args, exec |-> r,
         err |-> err, n |-> n]
  IN IF r.err # "ok" THEN Ret(0, BackendErr(r.err))
     ELSE IF affErr # "ok" THEN Ret(0, NewNotSupported(affErr))
     ELSE Ret(r.rows, Nil)

\* A CleanUp that reports every failure as NotSupported.
SQLSessionStorage_CleanUp_AllNotSupported(db, referenceDate, fail, affErr) ==
  LET stmt == Stmt("CleanUpSession", << >>)
      args == <<ConvertTime(referenceDate)>>
      r == ExecSessions(db, stmt, args, fail)
  IN IF r.err # "ok"
       THEN [Swept(stmt, args, r, affErr) EXCEPT !.err = NewNotSupported(r.err)]
       ELSE Swept(stmt, args, r, affErr)

\* SQLSessionStorage.CleanUp
SQLSessionStorage_CleanUp(db, referenceDate, fail, affErr) ==
  LET stmt == Stmt("CleanUpSession", << >>)
      args == <<ConvertTime(referenceDate)>>
  IN Swept(stmt, args, ExecSessions(db, stmt, args, fail), affErr)

\* SQLSessionStorage.DeleteForUser
SQLSessionStorage_DeleteForUser(db, user, fail, affErr) ==
  LET stmt == Stmt("DeleteForUserSession", << >>)
      args == <<user>>
  IN Swept(stmt, args, ExecSessions(db, stmt, args, fail), affErr)

\* The last call on the in-memory session store: operation, key, user and
\* reference date arguments, the entry passed, the returned count and error,
\* and the returned entry (found = FALSE: nil).
NoSessCall == [op |-> "none", key |-> "", user |-> InvalidUserID,
               ref |-> ZeroTime, passed |-> NoEntry, n |-> 0, err |-> Nil,
               found |-> FALSE, entry |-> NoEntry]

SessIdle ==
  /\ keyMapping = NewMemdummySessionStorage
  /\ sessLast = NoSessCall
  /\ live = EmptyMap

(***************************************************************************)
(* Functions without state                                                 *)
(***************************************************************************)
\* Largest instant used as an ExpireDate or as a reference date of IsValid.
MaxTime == 10

\* No call yet.
NoPure == [op |-> "none"]

\* Largest and smallest numTries passed to RetrySessionInsert.
MaxTries == 4
MinTries == 0 - 1

\* The key of the session passed, and the keys GenSessionKey returns.
FirstKey == "k0"
GenKeys == {"g1", "g2"}

\* The failure of the random source.
ReadFailed == [type |-> "read failed"]

\* NewRetryInsertErr
NewRetryInsertErr(errs) == [type |-> "RetryInsertErr", errs |-> errs]

\* What storage.InsertSession(session) can return: nil, SessionExists for
\* the key, or another error.
InsertOutcomes(key) ==
  {Nil, NewSessionExistsKey(key)} \cup {BackendErr(b) : b \in BackendErrs}

\* What GenSessionKey can return: a key and nil, or "" and the failure.
KeyOutcomes ==
  {[key |-> k, err |-> Nil] : k \in GenKeys}
    \cup {[key |-> "", err |-> ReadFailed]}

NoRetry == [pc |-> "idle", numTries |-> 0, i |-> 0, key |-> "", errs |-> << >>,
            ret |-> Nil, log |-> << >>]

\* A loop that returns nil when the tries are used up.
RetryLoopHead_ReturnsNil(st) ==
  IF st.i < st.numTries THEN [st EXCEPT !.pc = "insert"]
  ELSE [st EXCEPT !.pc = "done", !.ret = Nil]

\* The head of the for loop: the next attempt, or the return after the loop.
RetryLoopHead(st) ==
  IF st.i < st.numTries THEN [st EXCEPT !.pc = "insert"]
  ELSE [st EXCEPT !.pc = "done", !.ret = NewRetryInsertErr(st.errs)]

\* RetrySessionInsert(storage, session, numTries) up to the first test of
\* the loop condition.
RetryStart(key, numTries) ==
  RetryLoopHead([NoRetry EXCEPT !.numTries = numTries, !.key = key])

\* A loop body that takes every InsertSession error for a collision.
RetryInsertStep_RetriesAll(st, insertErr) ==
  LET logged == [st EXCEPT !.log = Append(@, [op |-> "InsertSession",
                                              key |-> st.key,
                                              err |-> insertErr])]
  IN IF insertErr = Nil THEN [logged EXCEPT !.pc = "done", !.ret = Nil]
     ELSE [logged EXCEPT !.pc = "genkey", !.errs = Append(@, insertErr)]

\* The body of the loop from storage.InsertSession to the type switch;
\* insertErr is what InsertSession returned.
RetryInsertStep(st, insertErr) ==
  LET logged == [st EXCEPT !.log = Append(@, [op |-> "InsertSession",
                                              key |-> st.key,
                                              err |-> insertErr])]
  IN IF insertErr = Nil THEN [logged EXCEPT !.pc = "done", !.ret = Nil]
     ELSE IF insertErr.type = "SessionExists"
       THEN [logged EXCEPT !.pc = "genkey", !.errs = Append(@, insertErr)]
       ELSE [logged EXCEPT !.pc = "done", !.ret = insertErr]

\* The rest of the body after a collision: GenSessionKey returned k; then
\* i++ and the loop condition.
RetryKeyStep(st, k) ==
  LET logged == [st EXCEPT !.log = Append(@, [op |-> "GenSessionKey",
                                              key |-> k.key, err |-> k.err])]
  IN IF k.err # Nil THEN [logged EXCEPT !.pc = "done", !.ret = k.err]
     ELSE RetryLoopHead([logged EXCEPT !.key = k.key, !.i = @ + 1])

(***************************************************************************)
(* Session keys                                                            *)
(***************************************************************************)
\* SessionKeyBytes
SessionKeyBytes == 29

\* The alphabet of base64.URLEncoding: the character of each 6 bit value,
\* from 0 on.
encodeURL ==
  <<"A", "B", "C", "D", "E", "F", "G", "H", "I", "J", "K", "L", "M",
    "N", "O", "P", "Q", "R", "S", "T", "U", "V", "W", "X", "Y", "Z",
    "a", "b", "c", "d", "e", "f", "g", "h", "i", "j", "k", "l", "m",
    "n", "o", "p", "q", "r", "s", "t", "u", "v", "w", "x", "y", "z",
    "0", "1", "2", "3", "4", "5", "6", "7", "8", "9", "-", "_">>

\* The character that pads the encodings with padding.
StdPadding == "="

\* The characters of a 24 bit value of which the first n are written.
Sextets(val, n) ==
  [i \in 1..n |-> encodeURL[((val \div (2 ^ (6 * (4 - i)))) % 64) + 1]]

\* An encoding that pads what is left of the bytes after the groups of
\* three to four characters, as base64.URLEncoding does.
RECURSIVE EncodeToString_Padded(_)
EncodeToString_Padded(src) ==
  CASE Len(src) = 0 -> << >>
    [] Len(src) = 1 -> Sextets(src[1] * 65536, 2) \o <<StdPadding, StdPadding>>
    [] Len(src) = 2 ->
         Sextets(src[1] * 65536 + src[2] * 256, 3) \o <<StdPadding>>
    [] OTHER -> Sextets(src[1] * 65536 + src[2] * 256 + src[3], 4)
                \o EncodeToString_Padded(SubSeq(src, 4, Len(src)))

\* base64.RawURLEncoding.EncodeToString on a sequence of bytes: four
\* characters for every three bytes, three for two bytes that are left and
\* two for one, and no padding. A string is the sequence of its characters.
RECURSIVE EncodeToString(_)
EncodeToString(src) ==
  CASE Len(src) = 0 -> << >>
    [] Len(src) = 1 -> Sextets(src[1] * 65536, 2)
    [] Len(src) = 2 -> Sextets(src[1] * 65536 + src[2] * 256, 3)
    [] OTHER -> Sextets(src[1] * 65536 + src[2] * 256 + src[3], 4)
                \o EncodeToString(SubSeq(src, 4, Len(src)))

\* Byte values the random source gives, and the contents of randBytes after
\* a read that filled it: one value everywhere but at one place.
KeyByteValues == {0, 1, 170, 255}
RandomBytes ==
  {[i \in 1..SessionKeyBytes |-> IF i = p THEN b ELSE f] :
     f \in {0, 255}, b \in KeyByteValues, p \in 1..SessionKeyBytes}

\* What io.ReadFull(rand.Reader, randBytes) reports: the buffer filled, or
\* an error.
UnexpectedEOF == [type |-> "unexpected EOF"]
ReadOutcomes ==
  {[randBytes |-> b, genErr |-> Nil] : b \in RandomBytes}
    \cup {[randBytes |-> [i \in 1..SessionKeyBytes |-> 0], genErr |-> g] :
            g \in {ReadFailed, UnexpectedEOF}}

\* GenSessionKey, given what the read of the random source reports.
GenSessionKey(read) ==
  IF read.genErr # Nil THEN [key |-> << >>, err |-> read.genErr]
  ELSE [key |-> EncodeToString(read.randBytes), err |-> Nil]

\* NewSessionWithKey: isNil says that the returned entry is nil.
NewSessionWithKey(user, expireDate, read) ==
  LET k == GenSessionKey(read) IN
  IF k.err # Nil THEN [isNil |-> TRUE, entry |-> NoEntry, err |-> k.err]
  ELSE [isNil |-> FALSE,
        entry |-> [Key |-> k.key, User |-> user, ExpireDate |-> expireDate],
        err |-> Nil]

(***************************************************************************)
(* SQLTemplateReplacer                                                     *)
(***************************************************************************)
\* A string is the sequence of its characters. Templates are written with
\* three characters.
Chars == {"$", "A", "B"}

\* Longest template passed to Apply.
MaxLen == 3

TemplateStrings == SeqsUpTo(Chars, MaxLen)

\* The keys that are set, "$A$", "$B$" and "$A", the second a value too,
\* and the third a prefix of the first.
KeyA == <<"$", "A", "$">>
KeyB == <<"$", "B", "$">>
KeyPrefixA == <<"$", "A">>
TemplateValues == {<<"x">>, KeyB}

\* The keys the callers of one replacer use: a placeholder and the
\* placeholder its value can be, or a placeholder and its prefix.
KeySets == {{KeyA, KeyB}, {KeyPrefixA, KeyA}}

\* The mappings passed to UpdateDict and held by the other replacer, for
\* callers that use the given keys.
TemplateDicts(keys) ==
  {d \in {(KeyB :> <<"x">>),
           (KeyA :> KeyB) @@ (KeyB :> <<"x">>),
           (KeyA :> <<"x">>),
           (KeyA :> KeyB) @@ (KeyPrefixA :> <<"x">>)} : DOMAIN d \subseteq keys}

\* The argument lists of SetMany: up to two key / value pairs, and such a
\* list with a key that has no value after it.
PairLists(keys) ==
  LET pairs == {<<k, v>> : k \in keys, v \in TemplateValues}
      even == {<< >>} \cup pairs \cup {p \o q : p, q \in pairs}
  IN even \cup {<<k>> : k \in keys}
          \cup {p \o <<k>> : p \in pairs, k \in keys}

\* The argument lists of DeleteMany.
KeyLists(keys) == SeqsUpTo(keys, 2)

\* strings.HasPrefix
HasPrefix(s, prefix) ==
  Len(prefix) <= Len(s) /\ SubSeq(s, 1, Len(prefix)) = prefix

\* strings.Replacer.Replace of the replacer strings.NewReplacer(oldnew...)
\* with old strings that are not empty: the string is read from left to
\* right; where old strings are a prefix of what is left, the one that comes
\* first in oldnew is replaced by its new string and reading goes on behind
\* it; where none is, the character is copied.
RECURSIVE Replace(_, _)
Replace(oldnew, s) ==
  IF s = << >> THEN << >>
  ELSE LET hits == {i \in 1..(Len(oldnew) \div 2) :
                      HasPrefix(s, oldnew[2 * i - 1])}
       IN IF hits = {} THEN <<s[1]>> \o Replace(oldnew, Tail(s))
          ELSE LET i == CHOOSE i \in hits : \A j \in hits : i <= j
               IN oldnew[2 * i] \o
                  Replace(oldnew, SubSeq(s, Len(oldnew[2 * i - 1]) + 1, Len(s)))

\* The orders in which a range loop can visit the keys of a map: Go leaves
\* the order open.
KeyOrders(entries) ==
  LET n == Cardinality(DOMAIN entries) IN
  {order \in [1..n -> DOMAIN entries] :
     \A i, j \in 1..n : order[i] = order[j] => i = j}

\* SQLTemplateReplacer.computeReplacer, with the order in which the loop
\* visits the entries.
computeReplacer(t, order) ==
  [t EXCEPT !.replacer =
     [i \in 1..(2 * Len(order)) |->
        IF i % 2 = 1 THEN order[(i + 1) \div 2]
                     ELSE t.entries[order[i \div 2]]]]

\* NewSQLTemplateReplacer
NewSQLTemplateReplacer == [entries |-> EmptyMap, replacer |-> << >>]

\* SQLTemplateReplacer.HasKey
SQLTemplateReplacer_HasKey(t, key) == key \in DOMAIN t.entries

\* SQLTemplateReplacer.Set
SQLTemplateReplacer_Set(t, key, value, order) ==
  computeReplacer([t EXCEPT !.entries = MapSet(@, key, value)], order)

\* The loop of SetMany over the pairs of oldnew.
RECURSIVE SetPairs(_, _)
SetPairs(entries, oldnew) ==
  IF Len(oldnew) < 2 THEN entries
  ELSE SetPairs(MapSet(entries, oldnew[1], oldnew[2]),
                SubSeq(oldnew, 3, Len(oldnew)))

\* SQLTemplateReplacer.SetMany: the replacer after the call and whether the
\* call panicked.
SQLTemplateReplacer_SetMany(t, oldnew, order) ==
  IF Len(oldnew) % 2 # 0 THEN [t |-> t, panic |-> TRUE]
  ELSE [t |-> computeReplacer([t EXCEPT !.entries = SetPairs(@, oldnew)],
                              order),
        panic |-> FALSE]

\* The entries after the loop of UpdateDict.
Merged(entries, mapping) ==
  [k \in (DOMAIN entries) \cup (DOMAIN mapping) |->
     IF k \in DOMAIN mapping THEN mapping[k] ELSE entries[k]]

\* SQLTemplateReplacer.UpdateDict
SQLTemplateReplacer_UpdateDict(t, mapping, order) ==
  computeReplacer([t EXCEPT !.entries = Merged(@, mapping)], order)

\* SQLTemplateReplacer.Update
SQLTemplateReplacer_Update(t, other, order) ==
  SQLTemplateReplacer_UpdateDict(t, other.entries, order)

\* A Delete that does not compute the strings.Replacer again.
SQLTemplateReplacer_Delete_KeepsReplacer(t, key, order) ==
  [t EXCEPT !.entries = MapDelete(@, key)]

\* SQLTemplateReplacer.Delete
SQLTemplateReplacer_Delete(t, key, order) ==
  computeReplacer([t EXCEPT !.entries = MapDelete(@, key)], order)

\* SQLTemplateReplacer.DeleteMany
SQLTemplateReplacer_DeleteMany(t, keys, order) ==
  computeReplacer(
    [t EXCEPT !.entries = [k \in (DOMAIN @) \ {keys[i] : i \in DOMAIN keys}
                             |-> @[k]]],
    order)

\* An Apply that replaces again in the text the first pass produced.
SQLTemplateReplacer_Apply_Rescans(t, templateStr) ==
  Replace(t.replacer, Replace(t.replacer, templateStr))

\* SQLTemplateReplacer.Apply
SQLTemplateReplacer_Apply(t, templateStr) == Replace(t.replacer, templateStr)

\* No call on a replacer yet; a call records its operation and, for HasKey
\* and Apply, the argument and the result, for SetMany whether it panicked.
NoTemplateCall == [op |-> "none"]

\* Two replacers without entries; abstract is the map that the calls made
\* on t so far describe, keys the keys the callers use.
NoTemplates == [t |-> NewSQLTemplateReplacer, other |-> NewSQLTemplateReplacer,
                abstract |-> EmptyMap, last |-> NoTemplateCall, keys |-> {}]

(***************************************************************************)
(* Password classes                                                        *)
(***************************************************************************)
\* Largest number of classes and of runes passed.
MaxClasses == 2
MaxRunes == 2

\* The runes of the passwords: 'a', 'Z', '5' and ' '.
Runes == {97, 90, 53, 32}

\* LowerLetterClass: 'a' <= r <= 'z'
LowerLetterClass(r) == r >= 97 /\ r <= 122

\* UpperLetterClass: 'A' <= r <= 'Z'
UpperLetterClass(r) == r >= 65 /\ r <= 90

\* DigitClass: '0' <= r <= '9'
DigitClass(r) == r >= 48 /\ r <= 57

RuneClasses == {"LowerLetterClass", "UpperLetterClass", "DigitClass"}

\* c(r) for a RuneClass c.
ClassMatches(c, r) ==
  CASE c = "LowerLetterClass" -> LowerLetterClass(r)
    [] c = "UpperLetterClass" -> UpperLetterClass(r)
    [] c = "DigitClass" -> DigitClass(r)

\* The lists of classes and the passwords (as their runes) passed.
ClassLists == UNION {[1..n -> RuneClasses] : n \in 0..MaxClasses}
Passwords == UNION {[1..n -> Runes] : n \in 0..MaxRunes}

\* ClassCounter of the revision that counts in one loop: the indexes of the
\* classes that match a rune of s are collected in a map, whose size is
\* returned.
ClassCounter_Sequential(classes, s) ==
  Cardinality({i \in 1..Len(classes) :
                 \E k \in 1..Len(s) : ClassMatches(classes[i], s[k])})

NoCounter == [pc |-> "idle", classes |-> << >>, asRunes |-> << >>, n |-> 0,
              g |-> << >>, i |-> 0, numFulfilled |-> 0, ret |-> 0,
              ok |-> FALSE]

\* The heads of the two loops of ClassCounter: after the last class is
\* started the receive loop begins; after len(classes) values are received
\* ClassCounter returns numFulfilled, which the verifier compares with n.
CounterLoopHead(st) ==
  IF st.pc = "spawn" /\ Len(st.g) < Len(st.classes) THEN st
  ELSE IF st.i < Len(st.classes) THEN [st EXCEPT !.pc = "recv"]
  ELSE [st EXCEPT !.pc = "done", !.ret = st.numFulfilled,
                  !.ok = (st.numFulfilled = st.n)]

\* The verifier PWContainsAll(classes) called with pw, up to the first test
\* of the loop over the classes.
PWContainsAll(classes, pw) ==
  CounterLoopHead([NoCounter EXCEPT !.pc = "spawn", !.classes = classes,
                                    !.asRunes = pw, !.n = Len(classes)])

\* One turn of the loop over the classes: go func(c RuneClass) for the next
\* class.
StartGoroutine(st) ==
  CounterLoopHead([st EXCEPT !.g = Append(@,
                     [pc |-> "run", c |-> st.classes[Len(st.g) + 1],
                      fulfilled |-> FALSE])])

\* A goroutine that reports a match only.
GoroutineScan_ReportsMatches(gr, asRunes) ==
  LET fulfilled == \E k \in 1..Len(asRunes) : ClassMatches(gr.c, asRunes[k])
  IN [gr EXCEPT !.pc = IF fulfilled THEN "send" ELSE "finished",
                !.fulfilled = fulfilled]

\* The loop of a goroutine over the runes; it then waits at ch <- fulfilled.
GoroutineScan(gr, asRunes) ==
  [gr EXCEPT !.pc = "send",
             !.fulfilled = \E k \in 1..Len(asRunes) :
                              ClassMatches(gr.c, asRunes[k])]

\* ch is unbuffered: the send of goroutine j and the receive of the loop
\* happen together; the goroutine ends, the loop counts and goes on.
Receive(st, j) ==
  CounterLoopHead([st EXCEPT
    !.g[j].pc = "finished",
    !.i = @ + 1,
    !.numFulfilled = IF st.g[j].fulfilled THEN @ + 1 ELSE @])

(***************************************************************************)
(* Concurrent calls on the in-memory stores                                *)
(***************************************************************************)
\* Two goroutines, and the number of calls they make altogether.
Procs == {1, 2}
MaxCalls == 3

\* The models, ids, entries and keys the goroutines pass.
ConcModels ==
  {m \in UserModels :
     m.ID = 1 /\ <<m.Username, m.EMail>> \in {<<"a", "x">>, <<"b", "y">>}}
ConcEntries == {[Key |-> k, User |-> 1, ExpireDate |-> 4] : k \in {"A", "B"}}
ConcNow == CHOOSE t \in NowTimes : TRUE

\* The calls on a MemdummyUserStorage ("users") and on a
\* MemdummySessionStorage ("sessions").
ConcCalls(kind) ==
  IF kind = "users"
    THEN {[op |-> "InsertUser", arg |-> [user |-> m]] : m \in ConcModels}
           \cup {[op |-> "DeleteUser", arg |-> [id |-> 1]]}
    ELSE {[op |-> "InsertSession", arg |-> [session |-> s]] : s \in ConcEntries}
           \cup {[op |-> "GetSession", arg |-> [key |-> "A"]]}

\* The calls that take s.mutex.RLock(); every other call takes s.mutex.Lock().
ReadLocked(op) == op \in {"GetUser", "GetSession"}

\* The calls whose body tests before it stores.
Inserts(op) == op \in {"InsertUser", "InsertSession"}

\* A mutex that lets every goroutine in.
CanLock_Always(mutex) == TRUE

\* sync.RWMutex: Lock proceeds when no goroutine holds the mutex, RLock when
\* no goroutine holds it for writing.
CanLock(mutex) == mutex.w = {} /\ mutex.r = {}

CanRLock(mutex) == mutex.w = {}

\* What a call returns and what it leaves in the store when it runs alone
\* on the store st.
Sequential(st, c) ==
  CASE c.op = "InsertUser" ->
         LET r == Memdummy_InsertUser(st.users, c.arg.user, ConcNow)
         IN [st |-> [st EXCEPT !.users = r.store],
             ret |-> [id |-> r.id, err |-> r.err]]
    [] c.op = "DeleteUser" ->
         LET r == Memdummy_DeleteUser(st.users, c.arg.id)
         IN [st |-> [st EXCEPT !.users = r.store], ret |-> [err |-> r.err]]
    [] c.op = "GetUser" ->
         [st |-> st, ret |-> GetUser(st.users, c.arg.id)]
    [] c.op = "Clear" ->
         [st |-> [st EXCEPT !.users = Memdummy_Clear(st.users)],
          ret |-> [err |-> "nil"]]
    [] c.op = "InsertSession" ->
         LET r == MemdummySession_InsertSession(st.sessions, c.arg.session)
         IN [st |-> [st EXCEPT !.sessions = r.keyMapping],
             ret |-> [err |-> r.err]]
    [] c.op = "DeleteSession" ->
         LET r == MemdummySession_DeleteSession(st.sessions, c.arg.key)
         IN [st |-> [st EXCEPT !.sessions = r.keyMapping],
             ret |-> [err |-> r.err]]
    [] c.op = "GetSession" ->
         [st |-> st, ret |-> MemdummySession_GetSession(st.sessions, c.arg.key)]
    [] c.op = "ClearSessions" ->
         [st |-> [st EXCEPT !.sessions = MemdummySession_Clear(st.sessions)],
          ret |-> [err |-> Nil]]

\* The tests at the head of InsertUser and of InsertSession: the error they
\* return, or passed.
InsertTest(st, c) ==
  IF c.op = "InsertUser"
    THEN IF \/ c.arg.user.Username \in DOMAIN st.users.nameMapping
            \/ c.arg.user.EMail \in DOMAIN st.users.mailMapping
           THEN [passed |-> FALSE,
                 ret |-> [id |-> InvalidUserID, err |-> "UserExists"]]
           ELSE [passed |-> TRUE, ret |-> [id |-> 0, err |-> "nil"]]
    ELSE IF c.arg.session.Key \in DOMAIN st.sessions
           THEN [passed |-> FALSE,
                 ret |-> [err |-> NewSessionExistsKey(c.arg.session.Key)]]
           ELSE [passed |-> TRUE, ret |-> [err |-> Nil]]

\* The rest of InsertUser and of InsertSession after the tests passed.
InsertStore(st, c) ==
  IF c.op = "InsertUser"
    THEN LET s  == st.users
             id == s.nextID
             u  == [c.arg.user EXCEPT !.ID = id, !.DateJoined = ConcNow]
         IN [st |-> [st EXCEPT !.users =
                       Store(MapSet(s.idMapping, id, Copy(u)),
                             MapSet(s.nameMapping, u.Username, Copy(u)),
                             MapSet(s.mailMapping, u.EMail, Copy(u)),
                             s.nextID + 1)],
             ret |-> [id |-> id, err |-> "nil"]]
    ELSE [st |-> [st EXCEPT !.sessions =
                    MapSet(@, c.arg.session.Key, SessionCopy(c.arg.session))],
          ret |-> [err |-> Nil]]

\* A goroutine: its position, its call, what the call returns, what it
\* returns when run alone, and the goroutines whose calls were under way
\* when it was made.
NoProc == [pc |-> "idle", op |-> "none", arg |-> [id |-> 0],
           ret |-> [err |-> "none"], alone |-> [err |-> "none"], met |-> {}]

UnderWay(pr) == pr.pc \notin {"idle", "returned"}

NoConc == [kind |-> "none",
           st |-> [users |-> NewMemdummyUserStorage,
                   sessions |-> NewMemdummySessionStorage],
           seq |-> [users |-> NewMemdummyUserStorage,
                    sessions |-> NewMemdummySessionStorage],
           mutex |-> [w |-> {}, r |-> {}],
           procs |-> [p \in Procs |-> NoProc],
           calls |-> 0,
           log |-> << >>]

LibIdle ==
  /\ pure = NoPure /\ retry = NoRetry /\ tmpl = NoTemplates
  /\ counter = NoCounter /\ conc = NoConc

ConcVarsOnly ==
  UNCHANGED <<memVars, initVars, sqlVars, sessVars, pure, retry, tmpl,
              counter>>

\* Goroutine p calls an operation of the store: it arrives at the Lock or
\* RLock of the first line.
ConcCall(p) ==
  /\ conc.kind # "none"
  /\ conc.procs[p].pc \in {"idle", "returned"}
  /\ conc.calls < MaxCalls
  /\ \E c \in ConcCalls(conc.kind) :
       conc' = [conc EXCEPT !.calls = @ + 1,
                            !.procs[p] =
                              [NoProc EXCEPT
                                 !.pc = "lock", !.op = c.op, !.arg = c.arg,
                                 !.met = {q \in Procs :
                                            UnderWay(conc.procs[q])}]]
  /\ ConcVarsOnly

\* s.mutex.Lock() or s.mutex.RLock() returns in goroutine p. The call is
\* also run alone on the sequential store.
ConcLock(p) ==
  LET pr == conc.procs[p]
      a  == Sequential(conc.seq, pr)
  IN /\ pr.pc = "lock"
     /\ IF ReadLocked(pr.op) THEN CanRLock(conc.mutex) ELSE CanLock(conc.mutex)
     /\ conc' = [conc EXCEPT
                   !.mutex = IF ReadLocked(pr.op)
                               THEN [@ EXCEPT !.r = @ \cup {p}]
                               ELSE [@ EXCEPT !.w = @ \cup {p}],
                   !.seq = a.st,
                   !.procs[p].alone = a.ret,
                   !.procs[p].pc = IF Inserts(pr.op) THEN "test" ELSE "body"]
     /\ ConcVarsOnly

\* The tests of an insert in goroutine p.
ConcTest(p) ==
  LET pr == conc.procs[p]
      t  == InsertTest(conc.st, pr)
  IN /\ pr.pc = "test"
     /\ conc' = [conc EXCEPT
                   !.procs[p].ret = t.ret,
                   !.procs[p].pc = IF t.passed THEN "store" ELSE "unlock"]
     /\ ConcVarsOnly

\* The stores of an insert in goroutine p.
ConcStore(p) ==
  LET pr == conc.procs[p]
      r  == InsertStore(conc.st, pr)
  IN /\ pr.pc = "store"
     /\ conc' = [conc EXCEPT !.st = r.st,
                             !.procs[p].ret = r.ret,
                             !.procs[p].pc = "unlock"]
     /\ ConcVarsOnly

\* The body of another operation in goroutine p.
ConcBody(p) ==
  LET pr == conc.procs[p]
      r  == Sequential(conc.st, pr)
  IN /\ pr.pc = "body"
     /\ conc' = [conc EXCEPT !.st = r.st,
                             !.procs[p].ret = r.ret,
                             !.procs[p].pc = "unlock"]
     /\ ConcVarsOnly

\* The deferred Unlock or RUnlock of goroutine p, and the return.
ConcUnlock(p) ==
  LET pr == conc.procs[p]
  IN /\ pr.pc = "unlock"
     /\ conc' = [conc EXCEPT
                   !.mutex = [w |-> @.w \ {p}, r |-> @.r \ {p}],
                   !.procs[p].pc = "returned",
                   !.log = Append(@, [p |-> p, op |-> pr.op, arg |-> pr.arg,
                                      ret |-> pr.ret, alone |-> pr.alone,
                                      met |-> pr.met])]
     /\ ConcVarsOnly

\* The steps of a call that is under way in goroutine p.
ConcRuns(p) ==
  ConcLock(p) \/ ConcTest(p) \/ ConcStore(p) \/ ConcBody(p) \/ ConcUnlock(p)

NextConcurrent == \E p \in Procs : ConcCall(p) \/ ConcRuns(p)

CounterVarsOnly ==
  UNCHANGED <<memVars, initVars, sqlVars, sessVars, pure, retry, tmpl, conc>>

\* verifier(pw) for verifier := PWContainsAll(classes).
CallPWContainsAll ==
  /\ counter.pc = "idle"
  /\ \E classes \in ClassLists : \E pw \in Passwords :
       counter' = PWContainsAll(classes, pw)
  /\ CounterVarsOnly

CounterSpawn ==
  /\ counter.pc = "spawn"
  /\ counter' = StartGoroutine(counter)
  /\ CounterVarsOnly

CounterScan(j) ==
  /\ j \in 1..Len(counter.g)
  /\ counter.g[j].pc = "run"
  /\ counter' = [counter EXCEPT !.g[j] = GoroutineScan(@, counter.asRunes)]
  /\ CounterVarsOnly

CounterReceive(j) ==
  /\ counter.pc = "recv"
  /\ j \in 1..Len(counter.g)
  /\ counter.g[j].pc = "send"
  /\ counter' = Receive(counter, j)
  /\ CounterVarsOnly

\* The steps of the goroutines ClassCounter runs in, the calling one and the
\* started ones.
CounterRuns ==
  \/ CounterSpawn
  \/ \E j \in 1..MaxClasses : CounterScan(j)
  \/ \E j \in 1..MaxClasses : CounterReceive(j)

NextClassCounter == CallPWContainsAll \/ CounterRuns

RetryCall ==
  /\ retry.pc = "idle"
  /\ \E numTries \in MinTries..MaxTries :
       retry' = RetryStart(FirstKey, numTries)
  /\ UNCHANGED <<memVars, initVars, sqlVars, sessVars, pure, tmpl,
               counter, conc>>

RetryInsert ==
  /\ retry.pc = "insert"
  /\ \E insertErr \in InsertOutcomes(retry.key) :
       retry' = RetryInsertStep(retry, insertErr)
  /\ UNCHANGED <<memVars, initVars, sqlVars, sessVars, pure, tmpl,
               counter, conc>>

RetryGenKey ==
  /\ retry.pc = "genkey"
  /\ \E k \in KeyOutcomes : retry' = RetryKeyStep(retry, k)
  /\ UNCHANGED <<memVars, initVars, sqlVars, sessVars, pure, tmpl,
               counter, conc>>

NextRetry == RetryCall \/ RetryInsert \/ RetryGenKey

\* s.IsValid(referenceDate) for a session entry s.
CallIsValid ==
  /\ \E expireDate \in 0..MaxTime, referenceDate \in 0..MaxTime :
       LET s == [Key |-> "A", User |-> 1, ExpireDate |-> expireDate] IN
       pure' = [op |-> "IsValid", s |-> s, referenceDate |-> referenceDate,
                valid |-> IsValid(s, referenceDate)]
  /\ UNCHANGED <<memVars, initVars, sqlVars, sessVars, retry, tmpl,
               counter, conc>>

\* GenSessionKey() and NewSessionWithKey(user, expireDate), with what the
\* random source gave.
CallGenSessionKey ==
  /\ \E read \in ReadOutcomes :
       pure' = [op |-> "GenSessionKey", read |-> read,
                ret |-> GenSessionKey(read)]
  /\ UNCHANGED <<memVars, initVars, sqlVars, sessVars, retry, tmpl,
               counter, conc>>

CallNewSessionWithKey ==
  /\ \E read \in ReadOutcomes, user \in SessionUsers, expireDate \in {5} :
       pure' = [op |-> "NewSessionWithKey", read |-> read,
                user |-> user, expireDate |-> expireDate,
                ret |-> NewSessionWithKey(user, expireDate, read)]
  /\ UNCHANGED <<memVars, initVars, sqlVars, sessVars, retry, tmpl,
               counter, conc>>

NextSessionKeys == CallGenSessionKey \/ CallNewSessionWithKey

\* A map after the pairs of oldnew were put into it: a key named by several
\* pairs has the value of the last of them.
PutMany(m, oldnew) ==
  LET n == Len(oldnew) \div 2
      named == {oldnew[2 * i - 1] : i \in 1..n}
      LastOf(k) == CHOOSE i \in 1..n :
                     /\ oldnew[2 * i - 1] = k
                     /\ \A j \in 1..n : oldnew[2 * j - 1] = k => j <= i
  IN [k \in (DOMAIN m) \cup named |->
        IF k \in named THEN oldnew[2 * LastOf(k)] ELSE m[k]]

\* The calls on the replacer t. A call that changes the entries computes
\* the strings.Replacer in one of the orders of the entries after the change.
TemplateVarsOnly ==
  UNCHANGED <<memVars, initVars, sqlVars, sessVars, pure, retry, counter,
              conc>>

TemplateSet ==
  /\ \E key \in tmpl.keys, value \in TemplateValues :
       \E order \in KeyOrders(MapSet(tmpl.t.entries, key, value)) :
         tmpl' = [tmpl EXCEPT
                    !.t = SQLTemplateReplacer_Set(tmpl.t, key, value, order),
                    !.abstract = MapSet(@, key, value),
                    !.last = [op |-> "Set"]]
  /\ TemplateVarsOnly

TemplateSetMany ==
  /\ \E oldnew \in PairLists(tmpl.keys) :
       \E order \in KeyOrders(IF Len(oldnew) % 2 = 0
                                THEN SetPairs(tmpl.t.entries, oldnew)
                                ELSE tmpl.t.entries) :
         LET r == SQLTemplateReplacer_SetMany(tmpl.t, oldnew, order) IN
         tmpl' = [tmpl EXCEPT
                    !.t = r.t,
                    !.abstract = IF Len(oldnew) % 2 = 0
                                   THEN PutMany(@, oldnew) ELSE @,
                    !.last = [op |-> "SetMany", panic |-> r.panic,
                              odd |-> Len(oldnew) % 2 = 1]]
  /\ TemplateVarsOnly

TemplateUpdateDict ==
  /\ \E mapping \in TemplateDicts(tmpl.keys) :
       \E order \in KeyOrders(Merged(tmpl.t.entries, mapping)) :
         tmpl' = [tmpl EXCEPT
                    !.t = SQLTemplateReplacer_UpdateDict(tmpl.t, mapping, order),
                    !.abstract = Merged(@, mapping),
                    !.last = [op |-> "UpdateDict"]]
  /\ TemplateVarsOnly

TemplateUpdate ==
  /\ \E order \in KeyOrders(Merged(tmpl.t.entries, tmpl.other.entries)) :
       tmpl' = [tmpl EXCEPT
                  !.t = SQLTemplateReplacer_Update(tmpl.t, tmpl.other, order),
                  !.abstract = Merged(@, tmpl.other.entries),
                  !.last = [op |-> "Update"]]
  /\ TemplateVarsOnly

TemplateDelete ==
  /\ \E key \in tmpl.keys :
       \E order \in KeyOrders(MapDelete(tmpl.t.entries, key)) :
         tmpl' = [tmpl EXCEPT
                    !.t = SQLTemplateReplacer_Delete(tmpl.t, key, order),
                    !.abstract = MapDelete(@, key),
                    !.last = [op |-> "Delete"]]
  /\ TemplateVarsOnly

TemplateDeleteMany ==
  /\ \E keys \in KeyLists(tmpl.keys) :
       LET left == [k \in (DOMAIN tmpl.t.entries) \ {keys[i] : i \in DOMAIN keys}
                      |-> tmpl.t.entries[k]] IN
       \E order \in KeyOrders(left) :
         tmpl' = [tmpl EXCEPT
                    !.t = SQLTemplateReplacer_DeleteMany(tmpl.t, keys, order),
                    !.abstract = [k \in (DOMAIN @) \ {keys[i] : i \in DOMAIN keys}
                                    |-> @[k]],
                    !.last = [op |-> "DeleteMany"]]
  /\ TemplateVarsOnly

TemplateHasKey ==
  /\ \E key \in tmpl.keys :
       tmpl' = [tmpl EXCEPT
                  !.last = [op |-> "HasKey", key |-> key,
                            has |-> SQLTemplateReplacer_HasKey(tmpl.t, key)]]
  /\ TemplateVarsOnly

TemplateApply ==
  /\ \E templateStr \in TemplateStrings :
       tmpl' = [tmpl EXCEPT
                  !.last = [op |-> "Apply", templateStr |-> templateStr,
                            result |-> SQLTemplateReplacer_Apply(tmpl.t,
                                                                 templateStr)]]
  /\ TemplateVarsOnly

NextTemplates ==
  \/ TemplateSet
  \/ TemplateSetMany
  \/ TemplateUpdateDict
  \/ TemplateUpdate
  \/ TemplateDelete
  \/ TemplateDeleteMany
  \/ TemplateHasKey
  \/ TemplateApply

(***************************************************************************)
(* The SQL storages as a state machine                                     *)
(***************************************************************************)
\* The last call on the SQL storages: operation, id or key argument, whether
\* Exec was called, its outcome and the rows it affected, the error returned
\* and, where field lists are recorded, the field list of an UpdateUser.
NoSqlCall == [op |-> "none", id |-> InvalidUserID, key |-> "", sent |-> FALSE,
              outcome |-> "ok", rows |-> 0, ret |-> Nil, fields |-> << >>,
              ref |-> ZeroTime, n |-> 0]

SqlCall(op, id, key, r) ==
  [op |-> op, id |-> id, key |-> key, sent |-> r.sent, outcome |-> r.exec.err,
   rows |-> r.exec.rows, ret |-> r.err, fields |-> << >>, ref |-> ZeroTime,
   n |-> 0]

\* No model recorded: found is whether a lookup returned a model, user the
\* model returned or the caller's model after an InsertUser, passed the
\* caller's model before it, args the parameters of the INSERT, scan, dj and
\* ll what the query and the two time conversions of a lookup reported.
NoModel == [found |-> FALSE, user |-> NoUser, passed |-> NoUser,
            args |-> << >>, scan |-> "ok", dj |-> "ok", ll |-> "ok",
            entry |-> NoEntry, stmt |-> Stmt("", << >>)]

\* The backing store executes a statement without error only if the
\* statement keeps the unique columns unique.
CanReport(r) ==
  (r.sent /\ r.exec.err = "ok") => ~Violates(dbUsers, dbSessions, r.stmt, r.args)

SqlIdle ==
  /\ dbUsers = EmptyUsers
  /\ dbSessions = EmptyMap
  /\ sqlConf = [bridge |-> [IsDuplicateInsert |-> {"e1"},
                            IsDuplicateUpdate |-> {"e1"}],
                SupportsUserFields |-> FALSE, storage |-> "users"]
  /\ sqlLast = NoSqlCall
  /\ sqlObserve = "none"
  /\ sqlModel = NoModel

\* The models callers pass to InsertUser: where models are recorded, also
\* models that carry times of their own.
PassedUserModels ==
  CASE sqlObserve = "models" ->
         UserModels \cup {[m EXCEPT !.DateJoined = 1, !.LastLogin = 1] :
                            m \in UserModels}
    [] sqlObserve = "layout" ->
         {m \in UserModels : m.ID = 1 /\ m.Username = "a" /\ m.EMail = "x"}
    [] OTHER -> UserModels

SqlInsertUser ==
  /\ sqlConf.storage = "users"
  /\ dbUsers.nextID <= MaxRows
  /\ \E user \in PassedUserModels, now \in NowTimes, fail \in Outcomes,
        idErr \in Outcomes :
       LET r == SQLUserStorage_InsertUser(sqlConf, dbUsers, user, now, fail,
                                          idErr) IN
       /\ CanReport(r)
       /\ dbUsers' = r.db
       /\ sqlLast' = SqlCall("InsertUser", r.id, "", r)
       /\ sqlModel' = IF sqlObserve = "models"
                         THEN [NoModel EXCEPT !.user = r.user, !.passed = user,
                                              !.args = r.args]
                         ELSE NoModel
  /\ UNCHANGED <<dbSessions, sqlConf, sqlObserve>>
  /\ UNCHANGED <<memVars, initVars, sessVars, libVars>>

\* The field lists callers pass to UpdateUser: those of IDFieldLists too
\* where the field list is recorded.
PassedSQLFieldLists ==
  CASE sqlObserve = "fields" -> SQLFieldLists \cup IDFieldLists
    [] sqlObserve = "layout" -> LayoutFieldLists
    [] OTHER -> SQLFieldLists

\* The models callers pass to UpdateUser: where the parameters of the
\* statement are recorded, models whose fields differ from each other.
PassedUpdateModels ==
  IF sqlObserve = "layout" THEN LayoutModels ELSE UserModels

SqlUpdateUser ==
  /\ sqlConf.storage = "users"
  /\ \E id \in 1..MaxRows, m \in PassedUpdateModels,
        fields \in PassedSQLFieldLists, fail \in Outcomes :
       LET r == SQLUserStorage_UpdateUser(sqlConf, dbUsers, id, m, fields,
                                          fail) IN
       /\ CanReport(r)
       /\ dbUsers' = r.db
       /\ sqlLast' = [SqlCall("UpdateUser", id, "", r) EXCEPT
                        !.fields = IF sqlObserve \in {"fields", "layout"}
                                     THEN fields ELSE << >>]
       /\ sqlModel' = IF sqlObserve = "layout"
                         THEN [NoModel EXCEPT !.passed = m, !.args = r.args,
                                              !.stmt = r.stmt]
                         ELSE NoModel
  /\ UNCHANGED <<dbSessions, sqlConf, sqlObserve>>
  /\ UNCHANGED <<memVars, initVars, sessVars, libVars>>

SqlDeleteUser ==
  /\ sqlConf.storage = "users"
  /\ \E id \in 1..MaxRows, fail \in Outcomes :
       LET r == SQLUserStorage_DeleteUser(dbUsers, id, fail) IN
       /\ CanReport(r)
       /\ dbUsers' = r.db
       /\ sqlLast' = SqlCall("DeleteUser", id, "", r)
  /\ sqlModel' = NoModel
  /\ UNCHANGED <<dbSessions, sqlConf, sqlObserve>>
  /\ UNCHANGED <<memVars, initVars, sessVars, libVars>>

\* The sessions callers insert: where sweeps or lookups are recorded,
\* sessions of two owners with two expire dates.
PassedSessionEntries ==
  IF sqlObserve \in {"sweeps", "lookups"}
    THEN [Key : SessionKeys, User : SessionUsers, ExpireDate : ExpireDates]
    ELSE SessionEntries

SqlInsertSession ==
  /\ sqlConf.storage = "sessions"
  /\ \E session \in PassedSessionEntries, fail \in Outcomes :
       LET r == SQLSessionStorage_InsertSession(sqlConf, dbSessions, session,
                                                fail) IN
       /\ CanReport(r)
       /\ dbSessions' = r.db
       /\ sqlLast' = SqlCall("InsertSession", InvalidUserID, session.Key, r)
       /\ live' = IF r.err = Nil THEN MapSet(live, session.Key, session)
                                 ELSE live
  /\ sqlModel' = NoModel
  /\ UNCHANGED <<dbUsers, sqlConf, sqlObserve>>
  /\ UNCHANGED <<memVars, initVars, keyMapping, sessLast, libVars>>

SqlDeleteSession ==
  /\ sqlConf.storage = "sessions"
  /\ \E key \in SessionKeys, fail \in Outcomes :
       LET r == SQLSessionStorage_DeleteSession(dbSessions, key, fail) IN
       /\ CanReport(r)
       /\ dbSessions' = r.db
       /\ sqlLast' = SqlCall("DeleteSession", InvalidUserID, key, r)
       /\ live' = IF r.exec.err = "ok" THEN MapDelete(live, key) ELSE live
  /\ sqlModel' = NoModel
  /\ UNCHANGED <<dbUsers, sqlConf, sqlObserve>>
  /\ UNCHANGED <<memVars, initVars, keyMapping, sessLast, libVars>>

SqlCleanUp ==
  /\ sqlConf.storage = "sessions"
  /\ \E referenceDate \in RefDates, fail \in Outcomes, affErr \in Outcomes :
       LET r == SQLSessionStorage_CleanUp(dbSessions, referenceDate, fail,
                                          affErr) IN
       /\ dbSessions' = r.db
       /\ sqlLast' = [SqlCall("CleanUp", InvalidUserID, "", r) EXCEPT
                        !.ref = referenceDate, !.n = r.n]
       /\ live' = IF r.exec.err = "ok"
                     THEN LET Expired(s) == s.ExpireDate <= referenceDate
                          IN Without(live, Expired)
                     ELSE live
  /\ sqlModel' = NoModel
  /\ UNCHANGED <<dbUsers, sqlConf, sqlObserve>>
  /\ UNCHANGED <<memVars, initVars, keyMapping, sessLast, libVars>>

SqlDeleteForUser ==
  /\ sqlConf.storage = "sessions"
  /\ \E user \in SessionUsers, fail \in Outcomes, affErr \in Outcomes :
       LET r == SQLSessionStorage_DeleteForUser(dbSessions, user, fail,
                                                affErr) IN
       /\ dbSessions' = r.db
       /\ sqlLast' = [SqlCall("DeleteForUser", user, "", r) EXCEPT !.n = r.n]
       /\ live' = IF r.exec.err = "ok"
                     THEN LET Owned(s) == s.User = user
                          IN Without(live, Owned)
                     ELSE live
  /\ sqlModel' = NoModel
  /\ UNCHANGED <<dbUsers, sqlConf, sqlObserve>>
  /\ UNCHANGED <<memVars, initVars, keyMapping, sessLast, libVars>>

\* A lookup as the last call: what the query reported, the returned error
\* and the returned model.
Lookup(op, id, key, scan, djErr, llErr, r) ==
  /\ sqlLast' = [NoSqlCall EXCEPT !.op = op, !.id = id, !.key = key,
                                  !.outcome = scan, !.ret = r.err]
  /\ sqlModel' = [NoModel EXCEPT !.found = r.found, !.user = r.user,
                                 !.scan = scan, !.dj = djErr, !.ll = llErr]
  /\ UNCHANGED <<dbUsers, dbSessions, sqlConf, sqlObserve>>
  /\ UNCHANGED <<memVars, initVars, sessVars, libVars>>

SqlGetUser ==
  /\ sqlConf.storage = "users"
  /\ \E id \in 1..MaxRows, fail \in Outcomes, djErr \in Outcomes,
        llErr \in Outcomes :
       Lookup("GetUser", id, "",
              QueryRow(dbUsers, Stmt("GetUser", << >>), id, fail).err,
              djErr, llErr,
              SQLUserStorage_GetUser(dbUsers, id, fail, djErr, llErr))

SqlGetUserByName ==
  /\ sqlConf.storage = "users"
  /\ \E username \in Usernames, fail \in Outcomes, djErr \in Outcomes,
        llErr \in Outcomes :
       Lookup("GetUserByName", InvalidUserID, username,
              QueryRow(dbUsers, Stmt("GetUserByName", << >>), username, fail).err,
              djErr, llErr,
              SQLUserStorage_GetUserByName(dbUsers, username, fail, djErr, llErr))

SqlGetUserByEmail ==
  /\ sqlConf.storage = "users"
  /\ \E email \in EMails, fail \in Outcomes, djErr \in Outcomes,
        llErr \in Outcomes :
       Lookup("GetUserByEmail", InvalidUserID, email,
              QueryRow(dbUsers, Stmt("GetUserByEmail", << >>), email, fail).err,
              djErr, llErr,
              SQLUserStorage_GetUserByEmail(dbUsers, email, fail, djErr, llErr))

SqlGetSession ==
  /\ sqlConf.storage = "sessions"
  /\ \E key \in SessionKeys, fail \in Outcomes, edErr \in Outcomes :
       LET r == SQLSessionStorage_GetSession(dbSessions, key, fail, edErr) IN
       /\ sqlLast' = [NoSqlCall EXCEPT
                        !.op = "GetSession", !.key = key,
                        !.outcome = QuerySession(dbSessions, key, fail).err,
                        !.ret = r.err]
       /\ sqlModel' = [NoModel EXCEPT
                         !.found = r.found, !.entry = r.entry,
                         !.scan = QuerySession(dbSessions, key, fail).err,
                         !.dj = edErr]
  /\ UNCHANGED <<dbUsers, dbSessions, sqlConf, sqlObserve>>
  /\ UNCHANGED <<memVars, initVars, sessVars, libVars>>

NextSQL ==
  \/ SqlInsertUser
  \/ SqlUpdateUser
  \/ SqlDeleteUser
  \/ SqlInsertSession
  \/ SqlDeleteSession

(***************************************************************************)
(* The in-memory session store as a state machine                          *)
(***************************************************************************)
\* The session storage in use is the in-memory one: no SQL storage was
\* constructed.
InMemory == sqlObserve = "none"

\* A call on the session store: the map and the record of the call after it,
\* and the sessions inserted and not removed since.
SessCall(m, call, inserted) ==
  /\ InMemory
  /\ keyMapping' = m
  /\ sessLast' = call
  /\ live' = inserted
  /\ UNCHANGED <<memVars, initVars, sqlVars, libVars>>

MemInsertSession ==
  \E session \in MemEntries :
    LET r == MemdummySession_InsertSession(keyMapping, session) IN
    SessCall(r.keyMapping,
             [NoSessCall EXCEPT !.op = "InsertSession", !.key = session.Key,
                                !.passed = session, !.err = r.err],
             IF r.err = Nil THEN MapSet(live, session.Key, session) ELSE live)

MemGetSession ==
  \E key \in MemKeys :
    LET r == MemdummySession_GetSession(keyMapping, key) IN
    SessCall(keyMapping,
             [NoSessCall EXCEPT !.op = "GetSession", !.key = key,
                                !.err = r.err, !.found = r.found,
                                !.entry = r.entry],
             live)

MemDeleteSession ==
  \E key \in MemKeys :
    LET r == MemdummySession_DeleteSession(keyMapping, key) IN
    SessCall(r.keyMapping,
             [NoSessCall EXCEPT !.op = "DeleteSession", !.key = key,
                                !.err = r.err],
             MapDelete(live, key))

MemCleanUp ==
  \E referenceDate \in MemRefDates :
    LET r == MemdummySession_CleanUp(keyMapping, referenceDate)
        Expired(s) == s.ExpireDate <= referenceDate
    IN SessCall(r.keyMapping,
                [NoSessCall EXCEPT !.op = "CleanUp", !.ref = referenceDate,
                                   !.n = r.n, !.err = r.err],
                Without(live, Expired))

MemDeleteForUser ==
  \E user \in {o[1] : o \in MemOwners} :
    LET r == MemdummySession_DeleteForUser(keyMapping, user)
        Owned(s) == s.User = user
    IN SessCall(r.keyMapping,
                [NoSessCall EXCEPT !.op = "DeleteForUser", !.user = user,
                                   !.n = r.n, !.err = r.err],
                Without(live, Owned))

MemClearSessions ==
  SessCall(MemdummySession_Clear(keyMapping),
           [NoSessCall EXCEPT !.op = "Clear"], EmptyMap)

\* The map after the caller of GetSession(key) wrote entry into the
\* SessionEntry it was returned: GetSession returns the pointer that the map
\* holds.
WriteReturnedEntry(m, key, entry) ==
  IF key \in DOMAIN m THEN MapSet(m, key, entry) ELSE m

\* The map after the caller of InsertSession(session) wrote entry into
\* session: the map holds session.Copy(), an object of its own.
WritePassedEntry(m, key, entry) == m

\* What a caller writes into an entry it holds: another owner and expire
\* date.
CallerWrite(entry) == [entry EXCEPT !.User = 3, !.ExpireDate = 4]

\* The caller of the last call writes into the entry GetSession returned.
CallerWritesReturned ==
  /\ sessLast.op = "GetSession"
  /\ sessLast.found
  /\ SessCall(WriteReturnedEntry(keyMapping, sessLast.key,
                                 CallerWrite(sessLast.entry)),
              [NoSessCall EXCEPT !.op = "write returned",
                                 !.key = sessLast.key,
                                 !.entry = CallerWrite(sessLast.entry)],
              live)

\* The caller of the last call writes into the entry it passed to
\* InsertSession.
CallerWritesPassed ==
  /\ sessLast.op = "InsertSession"
  /\ SessCall(WritePassedEntry(keyMapping, sessLast.key,
                               CallerWrite(sessLast.passed)),
              [NoSessCall EXCEPT !.op = "write passed",
                                 !.key = sessLast.key,
                                 !.entry = CallerWrite(sessLast.passed)],
              live)

NextSessions ==
  \/ MemInsertSession
  \/ MemGetSession
  \/ MemDeleteSession
  \/ MemCleanUp
  \/ MemDeleteForUser
  \/ MemClearSessions

(***************************************************************************)
(* The in-memory user store as a state machine                             *)
(***************************************************************************)
CurStore == Store(idMapping, nameMapping, mailMapping, nextID)

SetStore(s) ==
  /\ idMapping' = s.idMapping
  /\ nameMapping' = s.nameMapping
  /\ mailMapping' = s.mailMapping
  /\ nextID' = s.nextID

\* The last call: operation, id argument, field list, returned id and error,
\* and whether the id argument was stored when the call started.
NoCall == [op |-> "none", id |-> InvalidUserID, fields |-> << >>,
           ret |-> InvalidUserID, err |-> "nil", had |-> FALSE,
           name |-> "", mail |-> ""]

\* The usernames and e-mails of a user that has the model m, added to those
\* it had before.
Holding(h, id, m) ==
  MapSet(h, id,
         [names |-> (IF id \in DOMAIN h THEN h[id].names ELSE {})
                      \cup {m.Username},
          mails |-> (IF id \in DOMAIN h THEN h[id].mails ELSE {})
                      \cup {m.EMail}])

\* The history variables after a call: call is the record of the call, users
\* the users that are still as inserted.
Observe(call, users, names) ==
  /\ last' = CASE observe \in {"fields", "times"} ->
                    [call EXCEPT !.name = "", !.mail = ""]
               [] observe = "calls" ->
                    [call EXCEPT !.fields = << >>, !.name = "", !.mail = ""]
               [] observe = "history" -> [call EXCEPT !.fields = << >>]
               [] OTHER -> [NoCall EXCEPT !.op = call.op]
  /\ pristine' = IF observe = "users" THEN users ELSE EmptyMap
  /\ held' = IF observe = "history" THEN names ELSE EmptyMap
  /\ observe' = observe
  /\ UNCHANGED <<initVars, sqlVars, sessVars, libVars>>

InitStore ==
  /\ idMapping = NewMemdummyUserStorage.idMapping
  /\ nameMapping = NewMemdummyUserStorage.nameMapping
  /\ mailMapping = NewMemdummyUserStorage.mailMapping
  /\ nextID = NewMemdummyUserStorage.nextID
  /\ last = NoCall
  /\ pristine = EmptyMap
  /\ held = EmptyMap

MemIdle == InitStore /\ observe = "none"

InitMem == InitStore /\ observe = "calls" /\ InitIdle /\ SqlIdle /\ SessIdle /\ LibIdle

InitMemFields == InitStore /\ observe = "fields" /\ InitIdle /\ SqlIdle /\ SessIdle /\ LibIdle

InitMemUsers == InitStore /\ observe = "users" /\ InitIdle /\ SqlIdle /\ SessIdle /\ LibIdle

InitMemTimes == InitStore /\ observe = "times" /\ InitIdle /\ SqlIdle /\ SessIdle /\ LibIdle

\* The models callers pass: where the times are watched, the models of two
\* users (a with x, b with y) that carry the ID 1 and either zero times or
\* times of their own.
PassedModels ==
  CASE observe = "times" ->
         LET ms == {m \in UserModels :
                      /\ m.ID = 1
                      /\ <<m.Username, m.EMail>> \in {<<"a", "x">>, <<"b", "y">>}}
         IN ms \cup {[m EXCEPT !.DateJoined = 1, !.LastLogin = 1] : m \in ms}
    [] observe = "history" ->
         {m \in UserModels :
            /\ m.ID = 1
            /\ <<m.Username, m.EMail>>
                 \in {<<"a", "x">>, <<"a", "y">>, <<"b", "y">>}}
    [] OTHER -> UserModels

MemInsertUser ==
  /\ nextID <= MaxUsers
  /\ \E user \in PassedModels, now \in NowTimes :
       LET r == Memdummy_InsertUser(CurStore, user, now) IN
       /\ SetStore(r.store)
       /\ Observe([op |-> "InsertUser", id |-> InvalidUserID,
                   fields |-> << >>, ret |-> r.id, err |-> r.err,
                   had |-> FALSE, name |-> user.Username,
                   mail |-> user.EMail],
                  IF r.err = "nil" THEN MapSet(pristine, r.id, user)
                                   ELSE pristine,
                  IF r.err = "nil" THEN Holding(held, r.id, user) ELSE held)

\* The field lists callers pass: any of FieldLists where the field list is
\* recorded, the nil list (a full update) elsewhere.
PassedFieldLists ==
  IF observe \in {"fields", "times"} THEN FieldLists ELSE {<< >>}

MemUpdateUser ==
  \E id \in 1..MaxUsers, m \in PassedModels, fields \in PassedFieldLists :
    LET r == Memdummy_UpdateUser(CurStore, id, m, fields) IN
    /\ SetStore(r.store)
    /\ Observe([op |-> "UpdateUser", id |-> id, fields |-> fields,
                ret |-> InvalidUserID, err |-> r.err,
                had |-> id \in DOMAIN idMapping, name |-> m.Username,
                mail |-> m.EMail],
               IF r.err = "nil" THEN MapDelete(pristine, id) ELSE pristine,
               IF r.err = "nil" THEN Holding(held, id, m) ELSE held)

MemDeleteUser ==
  \E id \in 1..MaxUsers :
    LET r == Memdummy_DeleteUser(CurStore, id) IN
    /\ SetStore(r.store)
    /\ Observe([NoCall EXCEPT !.op = "DeleteUser", !.id = id, !.err = r.err,
                              !.had = id \in DOMAIN idMapping],
               MapDelete(pristine, id),
               IF r.err = "nil" THEN MapDelete(held, id) ELSE held)

MemClear ==
  /\ SetStore(Memdummy_Clear(CurStore))
  /\ Observe([NoCall EXCEPT !.op = "Clear"], EmptyMap, EmptyMap)

NextMem == MemInsertUser \/ MemUpdateUser \/ MemDeleteUser \/ MemClear

SpecMem == InitMem /\ [][NextMem]_vars

SpecMemFields == InitMemFields /\ [][NextMem]_vars

SpecMemUsers == InitMemUsers /\ [][NextMem]_vars

SpecMemTimes == InitMemTimes /\ [][NextMem]_vars

\* The store with the history of the usernames and e-mails of its users and
\* the username and e-mail passed to the last call.
InitMemHistory ==
  InitStore /\ observe = "history" /\ InitIdle /\ SqlIdle /\ SessIdle /\ LibIdle

SpecMemHistory == InitMemHistory /\ [][NextMem]_vars

InitInit == MemIdle /\ InitIdle /\ SqlIdle /\ SessIdle /\ LibIdle

SpecInit == InitInit /\ [][NextInit]_vars

\* The same runs with the backing store watched.
InitInitStore ==
  /\ MemIdle /\ SqlIdle /\ SessIdle /\ LibIdle
  /\ initPc = "idle" /\ initEngine = "users" /\ initQueries = << >>
  /\ initIdx = 1 /\ execErr = Nil /\ initRet = Nil
  /\ calls = << >> /\ txPending = << >>
  /\ dbApplied = [NoStore EXCEPT !.watched = TRUE]

SpecInitStore == InitInitStore /\ [][NextInit]_vars

\* The SQL storages, constructed with any provider and bridge, on empty tables.
InitSQL ==
  /\ MemIdle /\ InitIdle /\ SessIdle /\ LibIdle
  /\ dbUsers = EmptyUsers
  /\ dbSessions = EmptyMap
  /\ sqlConf \in SQLConfs
  /\ sqlLast = NoSqlCall
  /\ sqlObserve = "calls"
  /\ sqlModel = NoModel

SpecSQL == InitSQL /\ [][NextSQL]_vars

\* SQLUserStorage with either kind of provider and a bridge that has one
\* duplicate test, recording the field lists of updates.
InitSQLFields ==
  /\ MemIdle /\ InitIdle /\ SessIdle /\ LibIdle
  /\ dbUsers = EmptyUsers
  /\ dbSessions = EmptyMap
  /\ sqlConf \in {c \in SQLConfs :
                    /\ c.storage = "users"
                    /\ c.bridge.IsDuplicateInsert = c.bridge.IsDuplicateUpdate}
  /\ sqlLast = NoSqlCall
  /\ sqlObserve = "fields"
  /\ sqlModel = NoModel

NextSQLFields == SqlInsertUser \/ SqlUpdateUser

SpecSQLFields == InitSQLFields /\ [][NextSQLFields]_vars

\* SQLUserStorage with either kind of provider, recording the statement
\* asked of the provider and the parameters of updates.
InitSQLLayout ==
  /\ MemIdle /\ InitIdle /\ SessIdle /\ LibIdle
  /\ dbUsers = EmptyUsers
  /\ dbSessions = EmptyMap
  /\ sqlConf \in {c \in SQLConfs :
                    /\ c.storage = "users"
                    /\ c.bridge.IsDuplicateInsert = c.bridge.IsDuplicateUpdate}
  /\ sqlLast = NoSqlCall
  /\ sqlObserve = "layout"
  /\ sqlModel = NoModel

SpecSQLLayout == InitSQLLayout /\ [][NextSQLFields]_vars

\* SQLUserStorage with inserts and the three lookups, recording the models
\* passed and returned.
InitSQLModels ==
  /\ MemIdle /\ InitIdle /\ SessIdle /\ LibIdle
  /\ dbUsers = EmptyUsers
  /\ dbSessions = EmptyMap
  /\ sqlConf \in {c \in SQLConfs :
                    /\ c.storage = "users"
                    /\ c.bridge.IsDuplicateInsert = c.bridge.IsDuplicateUpdate}
  /\ sqlLast = NoSqlCall
  /\ sqlObserve = "models"
  /\ sqlModel = NoModel

NextSQLModels ==
  \/ SqlInsertUser
  \/ SqlGetUser
  \/ SqlGetUserByName
  \/ SqlGetUserByEmail

SpecSQLModels == InitSQLModels /\ [][NextSQLModels]_vars

\* Either SQL storage with the operations that can report NotSupported and
\* the inserts that fill the sessions table, recording the sweeps.
InitSQLSweeps ==
  /\ MemIdle /\ InitIdle /\ SessIdle /\ LibIdle
  /\ dbUsers = EmptyUsers
  /\ dbSessions = EmptyMap
  /\ sqlConf \in {c \in SQLConfs :
                    /\ ~c.SupportsUserFields
                    /\ c.bridge.IsDuplicateInsert = c.bridge.IsDuplicateUpdate}
  /\ sqlLast = NoSqlCall
  /\ sqlObserve = "sweeps"
  /\ sqlModel = NoModel

NextSQLSweeps ==
  \/ SqlInsertUser
  \/ SqlInsertSession
  \/ SqlCleanUp
  \/ SqlDeleteForUser

SpecSQLSweeps == InitSQLSweeps /\ [][NextSQLSweeps]_vars

\* Either SQL storage with every operation that executes a statement.
NextSQLFailures == NextSQL \/ SqlCleanUp \/ SqlDeleteForUser

SpecSQLFailures == InitSQL /\ [][NextSQLFailures]_vars

\* A new MemdummySessionStorage and the calls on it.
InitSessionStore == MemIdle /\ InitIdle /\ SqlIdle /\ SessIdle /\ LibIdle

\* The store and its callers, which also write into the entries they passed
\* and were returned.
NextSessionCallers == NextSessions \/ CallerWritesReturned \/ CallerWritesPassed

SpecSessionCallers == InitSessionStore /\ [][NextSessionCallers]_vars

SpecSessions == InitSessionStore /\ [][NextSessions]_vars

\* A session storage of either kind, the in-memory one or the SQL one with a
\* bridge that has one duplicate test, and the calls on it.
InitSQLLookups ==
  /\ MemIdle /\ InitIdle /\ SessIdle /\ LibIdle
  /\ dbUsers = EmptyUsers
  /\ dbSessions = EmptyMap
  /\ sqlConf \in {c \in SQLConfs :
                    /\ c.storage = "sessions"
                    /\ ~c.SupportsUserFields
                    /\ c.bridge.IsDuplicateInsert = c.bridge.IsDuplicateUpdate}
  /\ sqlLast = NoSqlCall
  /\ sqlObserve = "lookups"
  /\ sqlModel = NoModel

NextSessionStorage ==
  \/ NextSessions
  \/ CallerWritesReturned
  \/ CallerWritesPassed
  \/ SqlInsertSession
  \/ SqlGetSession
  \/ SqlDeleteSession
  \/ SqlCleanUp
  \/ SqlDeleteForUser

SpecSessionStorage ==
  (InitSessionStore \/ InitSQLLookups) /\ [][NextSessionStorage]_vars

\* A new replacer t, and another one that was given one of the mappings
\* with UpdateDict after NewSQLTemplateReplacer, as DefaultSQLReplacer does.
InitTemplates ==
  /\ MemIdle /\ InitIdle /\ SqlIdle /\ SessIdle
  /\ pure = NoPure /\ retry = NoRetry /\ counter = NoCounter
  /\ conc = NoConc
  /\ \E keys \in KeySets :
       \E mapping \in TemplateDicts(keys) :
         \E order \in KeyOrders(mapping) :
           tmpl = [NoTemplates EXCEPT
                     !.keys = keys,
                     !.other = SQLTemplateReplacer_UpdateDict(
                                 NewSQLTemplateReplacer, mapping, order)]

SpecTemplates == InitTemplates /\ [][NextTemplates]_vars

\* Nothing constructed: the functions without state are called.
InitPure == MemIdle /\ InitIdle /\ SqlIdle /\ SessIdle /\ LibIdle

SpecIsValid == InitPure /\ [][CallIsValid]_vars

SpecRetry == InitPure /\ [][NextRetry]_vars

SpecSessionKeys == InitPure /\ [][NextSessionKeys]_vars

\* A new MemdummyUserStorage or a new MemdummySessionStorage, called by the
\* goroutines of Procs; the scheduler runs every goroutine that can take a
\* step.
InitConcurrent ==
  /\ MemIdle /\ InitIdle /\ SqlIdle /\ SessIdle
  /\ pure = NoPure /\ retry = NoRetry /\ tmpl = NoTemplates
  /\ counter = NoCounter
  /\ \E kind \in {"users", "sessions"} : conc = [NoConc EXCEPT !.kind = kind]

SpecConcurrent ==
  /\ InitConcurrent
  /\ [][NextConcurrent]_vars
  /\ WF_vars(\E p \in Procs : ConcRuns(p))

\* The scheduler runs every goroutine that can take a step.
SpecClassCounter ==
  /\ InitPure
  /\ [][NextClassCounter]_vars
  /\ WF_vars(CounterSpawn)
  /\ \A j \in 1..MaxClasses :
       WF_vars(CounterScan(j)) /\ WF_vars(CounterReceive(j))

(***************************************************************************)
(* Properties of the in-memory user store                                  *)
(***************************************************************************)
Range(q) == {q[i] : i \in DOMAIN q}

StoreUnchanged == UNCHANGED <<idMapping, nameMapping, mailMapping, nextID>>

\* The eight caller-supplied fields of two models agree.
SameCallerFields(u, v) ==
  /\ u.FirstName = v.FirstName /\ u.LastName = v.LastName
  /\ u.Username = v.Username /\ u.EMail = v.EMail
  /\ u.Password = v.Password /\ u.IsActive = v.IsActive
  /\ u.IsSuperUser = v.IsSuperUser /\ u.IsStaff = v.IsStaff

\* A lookup result is the user inserted as u under id i.
ReturnsInserted(r, i, u) ==
  r.found /\ r.err = "nil" /\ r.user.ID = i /\ SameCallerFields(r.user, u)

\* A user stored under an id other than id holds the username or the e-mail.
HeldByOther(id, name, mail) ==
  \E j \in (DOMAIN idMapping) \ {id} :
    idMapping[j].Username = name \/ idMapping[j].EMail = mail

\* C1: every user inserted with id i and neither updated nor deleted since is
\* returned by GetUser(i), GetUserByName and GetUserByEmail with ID = i and
\* the inserted FirstName, LastName, Username, EMail, Password and flags,
\* whatever happened to other users in between.
C1_RoundTrip ==
  \A i \in DOMAIN pristine :
    /\ ReturnsInserted(GetUser(CurStore, i), i, pristine[i])
    /\ ReturnsInserted(GetUserByName(CurStore, pristine[i].Username), i, pristine[i])
    /\ ReturnsInserted(GetUserByEmail(CurStore, pristine[i].EMail), i, pristine[i])

\* C2: InsertUser of a model whose Username or EMail is held by a stored user
\* returns (InvalidUserID, UserExists) and leaves the store, nextID included,
\* unchanged: an insert that succeeds stores a Username and an EMail that no
\* stored user held, and an insert that fails returns InvalidUserID and
\* UserExists and changes nothing.
C2_InsertUniqueness ==
  [][(last'.op = "InsertUser")
     => IF last'.err = "nil"
          THEN /\ last'.ret \in DOMAIN idMapping'
               /\ ~HeldByOther(InvalidUserID, idMapping'[last'.ret].Username,
                               idMapping'[last'.ret].EMail)
          ELSE /\ last'.ret = InvalidUserID
               /\ last'.err = "UserExists"
               /\ StoreUnchanged]_vars

\* C6: DeleteUser of an id that is not stored returns nil and leaves the id
\* index, the username index, the e-mail index and nextID unchanged.
C6_IdempotentDelete ==
  [][(last'.op = "DeleteUser" /\ last'.id \notin DOMAIN idMapping)
     => (last'.err = "nil" /\ StoreUnchanged)]_vars

\* C6 witness: a delete of an absent id returned while another user is stored.
C6_Witness ==
  /\ last.op = "DeleteUser" /\ ~last.had /\ last.err = "nil"
  /\ last.id \notin DOMAIN idMapping
  /\ DOMAIN idMapping # {}

\* C7: UpdateUser of an id that is not stored returns nil and leaves the
\* store unchanged.
C7_UpdateAbsentIsNil ==
  [][(last'.op = "UpdateUser" /\ last'.id \notin DOMAIN idMapping)
     => (last'.err = "nil" /\ StoreUnchanged)]_vars

\* C9: a successful UpdateUser with a non-empty field list leaves every field
\* of the stored user that the list does not name as it was.
C9_PartialUpdateIsolation ==
  [][(/\ last'.op = "UpdateUser"
      /\ last'.err = "nil"
      /\ last'.fields # << >>
      /\ last'.id \in DOMAIN idMapping)
     => (/\ last'.id \in DOMAIN idMapping'
         /\ \A f \in (NonIDFields \cup {"ID"}) \ Range(last'.fields) :
              idMapping'[last'.id][f] = idMapping[last'.id][f])]_vars

\* C10: an UpdateUser that would give a stored user a Username or EMail held
\* by a different stored user returns AmbiguousCredentials and changes
\* nothing: an update that succeeds stores a Username and an EMail that no
\* other stored user held, and an update that returns AmbiguousCredentials
\* leaves the store unchanged.
C10_UpdateUniqueness ==
  [][(last'.op = "UpdateUser" /\ last'.id \in DOMAIN idMapping)
     => /\ last'.err \in {"nil", "AmbiguousCredentials"}
        /\ last'.err = "nil" =>
             /\ last'.id \in DOMAIN idMapping'
             /\ ~HeldByOther(last'.id, idMapping'[last'.id].Username,
                             idMapping'[last'.id].EMail)
        /\ last'.err = "AmbiguousCredentials" => StoreUnchanged]_vars

(***************************************************************************)
(* Properties of InitUsers / InitSessions                                  *)
(***************************************************************************)
ExecCalls == SelectSeq(calls, LAMBDA c : c.call = "Exec")

EndCalls == SelectSeq(calls, LAMBDA c : c.call \in {"Commit", "Rollback"})

BeginOk == calls # << >> /\ calls[1] = Call("Begin", "", "ok")

BeginFailed == calls # << >> /\ calls[1].call = "Begin" /\ calls[1].outcome # "ok"

ExecFailed == \E i \in DOMAIN ExecCalls : ExecCalls[i].outcome # "ok"

\* C3: once Begin has succeeded the non-empty setup statements are executed
\* in list order, empty statements are never sent, nothing is executed after
\* the first failing statement, and the run ends with exactly one call that
\* is Commit iff no statement failed and Rollback iff one failed.
C3_InitProtocol ==
  /\ \A i \in DOMAIN calls : (calls[i].call = "Begin") <=> (i = 1)
  /\ Len(ExecCalls) <= Len(NonEmpty(initQueries))
  /\ \A i \in DOMAIN ExecCalls :
       /\ ExecCalls[i].stmt = NonEmpty(initQueries)[i]
       /\ ExecCalls[i].stmt # ""
       /\ i < Len(ExecCalls) => ExecCalls[i].outcome = "ok"
  /\ Len(EndCalls) <= 1
  /\ EndCalls # << >> => calls[Len(calls)] = EndCalls[1]
  /\ (initPc = "done" /\ BeginOk) =>
       /\ Len(EndCalls) = 1
       /\ (EndCalls[1].call = "Commit") <=> ~ExecFailed
       /\ (EndCalls[1].call = "Rollback") <=> ExecFailed
       /\ ~ExecFailed => Len(ExecCalls) = Len(NonEmpty(initQueries))

\* C3 witness: a finished run whose list holds an empty statement, a
\* statement that succeeded, one that failed and one after it never sent.
C3_Witness ==
  /\ initPc = "done"
  /\ \E i \in DOMAIN initQueries : initQueries[i] = ""
  /\ Len(ExecCalls) = 2
  /\ ExecCalls[1].outcome = "ok"
  /\ ExecCalls[2].outcome # "ok"
  /\ Len(NonEmpty(initQueries)) > 2
  /\ EndCalls # << >> /\ EndCalls[1].call = "Rollback"

\* C4: nil is returned only if every non-empty statement and Commit
\* succeeded; a Begin failure is returned as it is and nothing is executed; a
\* statement failure is returned unchanged when Rollback succeeds and inside
\* a RollbackErr together with the rollback failure when Rollback fails; a
\* Commit failure gives a non-nil error.
C4_InitErrors ==
  initPc = "done" =>
    /\ initRet = Nil =>
         /\ BeginOk /\ ~ExecFailed
         /\ Len(ExecCalls) = Len(NonEmpty(initQueries))
         /\ calls[Len(calls)] = Call("Commit", "", "ok")
    /\ BeginFailed =>
         /\ initRet = BackendErr(calls[1].outcome)
         /\ ExecCalls = << >>
    /\ ExecFailed =>
         LET failure  == BackendErr(ExecCalls[Len(ExecCalls)].outcome)
             rollback == calls[Len(calls)]
         IN /\ rollback.call = "Rollback"
            /\ rollback.outcome = "ok" => initRet = failure
            /\ rollback.outcome # "ok" =>
                 /\ initRet.type = "RollbackErr"
                 /\ initRet.initialErr = failure
                 /\ initRet.rollbackErr = BackendErr(rollback.outcome)
    /\ (calls[Len(calls)].call = "Commit" /\ calls[Len(calls)].outcome # "ok")
         => initRet # Nil

\* C4 witness: a statement failed with e1, the rollback failed with e2 and
\* the returned RollbackErr holds both.
C4_Witness ==
  /\ initPc = "done"
  /\ initRet = NewRollbackErr(BackendErr("e1"), BackendErr("e2"))
  /\ ExecCalls # << >>

\* The run ended with a Commit or a Rollback that reported a failure.
EndFailed ==
  /\ EndCalls # << >>
  /\ EndCalls[1].outcome # "ok"

\* C5: when InitUsers / InitSessions has returned, the backing store holds
\* the effects of all non-empty statements if nil was returned and of none
\* of them otherwise; it never holds a proper non-empty part of them, also
\* where Rollback or Commit failed.
C5_InitAllOrNothing ==
  /\ dbApplied.run \in {<< >>, NonEmpty(initQueries)}
  /\ initPc = "done" =>
       /\ initRet = Nil => dbApplied.run = NonEmpty(initQueries)
       /\ initRet # Nil => dbApplied.run = << >>

\* C5 as it holds: when InitUsers / InitSessions has returned nil the
\* backing store holds the effects of all non-empty statements; when it has
\* returned an error and neither Rollback nor Commit failed the store holds
\* the effects of none of them; after a Commit that failed it holds all of
\* them or none; after a Rollback that failed it holds none or the statements
\* executed before the failing one; before the return it holds none.
C5_InitAllOrNothingIfEndSucceeds ==
  /\ initPc # "done" => dbApplied.run = << >>
  /\ initPc = "done" =>
       /\ initRet = Nil => dbApplied.run = NonEmpty(initQueries)
       /\ (initRet # Nil /\ ~EndFailed) => dbApplied.run = << >>
       /\ (EndFailed /\ EndCalls[1].call = "Commit") =>
            dbApplied.run \in {<< >>, NonEmpty(initQueries)}
       /\ (EndFailed /\ EndCalls[1].call = "Rollback") =>
            dbApplied.run
              \in {<< >>, [i \in 1..(Len(ExecCalls) - 1) |-> ExecCalls[i].stmt]}

\* C5 witness: on a store that holds s1 of an earlier run, a run in which s1
\* had succeeded before s2 failed was rolled back, and nothing of it was
\* kept.
C5_Witness ==
  /\ initPc = "done"
  /\ dbApplied.earlier = {"s1"}
  /\ Len(ExecCalls) = 2
  /\ ExecCalls[1] = Call("Exec", "s1", "ok")
  /\ ExecCalls[2].stmt = "s2" /\ ExecCalls[2].outcome # "ok"
  /\ calls[Len(calls)] = Call("Rollback", "", "ok")
  /\ initRet = BackendErr(ExecCalls[2].outcome)
  /\ dbApplied.run = << >>

(***************************************************************************)
(* Properties of the SQL engine's mutating operations                      *)
(***************************************************************************)
\* C8: SQLUserStorage.UpdateUser, SQLUserStorage.DeleteUser and
\* SQLSessionStorage.DeleteSession return nil whenever the backing store
\* executed the statement without error, whatever the number of rows
\* affected, and never return NoSuchUser or NoSuchSession.
C8_SQLIdempotentMutation ==
  sqlLast.op \in {"UpdateUser", "DeleteUser", "DeleteSession"}
    => /\ (sqlLast.sent /\ sqlLast.outcome = "ok") => sqlLast.ret = Nil
       /\ sqlLast.ret.type \notin {"NoSuchUser", "NoSuchSession"}

\* C8 witness: a DeleteUser of an id that has no row, executed without error
\* on a table that holds another row, affected zero rows and returned nil.
C8_Witness ==
  /\ sqlLast.op = "DeleteUser" /\ sqlLast.sent /\ sqlLast.outcome = "ok"
  /\ sqlLast.rows = 0 /\ sqlLast.ret = Nil
  /\ sqlLast.id \notin DOMAIN dbUsers.rows
  /\ DOMAIN dbUsers.rows # {}

\* C10, SQL engine: SQLUserStorage.UpdateUser returns AmbiguousCredentials
\* exactly when Exec was called, failed, and the bridge's IsDuplicateUpdate
\* accepts the failure.
C10_SQLAmbiguousIffDuplicate ==
  sqlLast.op = "UpdateUser"
    => (sqlLast.ret.type = "AmbiguousCredentials"
          <=> /\ sqlLast.sent
              /\ sqlLast.outcome # "ok"
              /\ sqlLast.outcome \in sqlConf.bridge.IsDuplicateUpdate)

(***************************************************************************)
(* Properties of the field lists of SQLUserStorage.UpdateUser              *)
(***************************************************************************)
\* The field list names something that is no field of UserModel.
NamesNoField(fields) ==
  \E i \in DOMAIN fields : ToLower(fields[i]) \notin DOMAIN FieldCases

\* The field list names the ID field, in any letter case.
NamesID(fields) == \E i \in DOMAIN fields : ToLower(fields[i]) = "id"

\* C11: when the provider supports field-scoped updates and the field list
\* contains a name that is no UserModel field, UpdateUser returns a non-nil
\* error, Exec is not called and the users table is unchanged.
C11_UnresolvableFieldName ==
  [][(/\ sqlLast'.op = "UpdateUser"
      /\ sqlConf.SupportsUserFields
      /\ NamesNoField(sqlLast'.fields))
     => (/\ sqlLast'.ret # Nil
         /\ ~sqlLast'.sent
         /\ dbUsers' = dbUsers)]_vars

\* C11 witness: an update of a stored user with the list EMail, Bogus was
\* refused before Exec.
C11_Witness ==
  /\ sqlLast.op = "UpdateUser"
  /\ sqlConf.SupportsUserFields
  /\ sqlLast.fields = <<"EMail", "Bogus">>
  /\ sqlLast.id \in DOMAIN dbUsers.rows
  /\ ~sqlLast.sent
  /\ sqlLast.ret.type = "prepare failed"

\* C12: a partial UpdateUser whose field list names the ID field, in any
\* letter case, is rejected with an error before any call of the backing
\* store.
C12_IDNeverUpdatable ==
  (/\ sqlLast.op = "UpdateUser"
   /\ sqlConf.SupportsUserFields
   /\ NamesID(sqlLast.fields))
    => (~sqlLast.sent /\ sqlLast.ret # Nil)

\* The NoSuchUser error that names the key of the last lookup.
NoSuchUserFor(call) ==
  CASE call.op = "GetUser" -> NewNoSuchUserID(call.id)
    [] call.op = "GetUserByName" -> NewNoSuchUserUsername(call.key)
    [] call.op = "GetUserByEmail" -> NewNoSuchUserMail(call.key)

\* The row of the users table a lookup asks for, as a set (empty: no row).
RowsFor(call) ==
  {i \in DOMAIN dbUsers.rows :
     CASE call.op = "GetUser" -> i = call.id
       [] call.op = "GetUserByName" -> dbUsers.rows[i].Username = call.key
       [] call.op = "GetUserByEmail" -> dbUsers.rows[i].EMail = call.key}

IsLookup(call) == call.op \in {"GetUser", "GetUserByName", "GetUserByEmail"}

\* C13: the SQL GetUser, GetUserByName and GetUserByEmail return the nil
\* model with the NoSuchUser error naming the requested key exactly when the
\* query reports no rows; any other failure of the scan and a failure of a
\* time conversion (DateJoined first) are returned unchanged with the nil
\* model; a model is returned only with the nil error, and it is the row.
C13_SQLLookupResults ==
  IsLookup(sqlLast) =>
    /\ (sqlLast.ret.type = "NoSuchUser") <=> (sqlModel.scan = "ErrNoRows")
    /\ sqlModel.scan = "ErrNoRows" =>
          /\ sqlLast.ret = NoSuchUserFor(sqlLast)
          /\ ~sqlModel.found
          /\ RowsFor(sqlLast) = {}
    /\ sqlModel.scan \in BackendErrs =>
          sqlLast.ret = BackendErr(sqlModel.scan) /\ ~sqlModel.found
    /\ (sqlModel.scan = "ok" /\ sqlModel.dj # "ok") =>
          sqlLast.ret = BackendErr(sqlModel.dj) /\ ~sqlModel.found
    /\ (sqlModel.scan = "ok" /\ sqlModel.dj = "ok" /\ sqlModel.ll # "ok") =>
          sqlLast.ret = BackendErr(sqlModel.ll) /\ ~sqlModel.found
    /\ sqlModel.found =>
          /\ sqlLast.ret = Nil
          /\ \E i \in RowsFor(sqlLast) :
                /\ sqlModel.user.ID = i
                /\ sqlModel.user.Username = dbUsers.rows[i].Username
                /\ sqlModel.user.EMail = dbUsers.rows[i].EMail
                /\ sqlModel.user.DateJoined \in NowTimes
                /\ sqlModel.user.LastLogin = ZeroTime
    /\ (~sqlModel.found) => sqlLast.ret # Nil

\* A lookup by e-mail of a row whose LastLogin cannot be converted: the
\* conversion failure comes back with the nil model.
C13_Witness ==
  /\ sqlLast.op = "GetUserByEmail"
  /\ RowsFor(sqlLast) # {}
  /\ sqlModel.scan = "ok" /\ sqlModel.dj = "ok" /\ sqlModel.ll = "e2"
  /\ sqlLast.ret = BackendErr("e2")
  /\ ~sqlModel.found

\* C14: SQLUserStorage.InsertUser submits the ten non-ID fields (the caller's
\* ID is no parameter), stamps DateJoined with the current instant and
\* LastLogin with the zero instant on the caller's model; with a nil error the
\* returned id and the model's ID are the id the backing store generated;
\* with any error (UserExists, another failure, NotSupported) both are
\* InvalidUserID.
C14_SQLInsertIDHandling ==
  sqlLast.op = "InsertUser" =>
    LET p == sqlModel.passed
        u == sqlModel.user
    IN /\ Len(sqlModel.args) = 10
       /\ \E now \in NowTimes :
            /\ sqlModel.args = <<p.Username, p.Password, p.EMail, p.FirstName,
                                 p.LastName, p.IsSuperUser, p.IsStaff,
                                 p.IsActive, ConvertTime(now),
                                 ConvertTime(ZeroTime)>>
            /\ u.DateJoined = now
       /\ u.LastLogin = ZeroTime
       /\ sqlLast.ret = Nil =>
            /\ sqlLast.id = dbUsers.nextID - 1
            /\ u.ID = sqlLast.id
            /\ sqlLast.id \in DOMAIN dbUsers.rows
            /\ dbUsers.rows[sqlLast.id].Username = p.Username
       /\ sqlLast.ret # Nil =>
            /\ sqlLast.id = InvalidUserID
            /\ u.ID = InvalidUserID

\* An insert of a model carrying the ID 2 and times of its own, executed by
\* the backing store as row 1, whose id cannot be reported.
C14_Witness ==
  /\ sqlLast.op = "InsertUser"
  /\ sqlLast.ret.type = "NotSupported"
  /\ sqlModel.passed.ID = 2
  /\ sqlModel.passed.LastLogin = 1 /\ sqlModel.passed.DateJoined = 1
  /\ sqlModel.user.ID = InvalidUserID
  /\ 1 \in DOMAIN dbUsers.rows /\ dbUsers.nextID = 2
  /\ dbUsers.rows[1].LastLogin = ConvertTime(ZeroTime)

\* C15: in the SQL engines NotSupported comes only from InsertUser, CleanUp
\* and DeleteForUser, and only from a call whose statement the backing store
\* executed without error: the table then holds the new row, or has lost the
\* swept sessions or the sessions of the user. A statement that failed is
\* never reported as NotSupported.
C15_NotSupportedAfterEffect ==
  [][sqlLast'.ret.type = "NotSupported" =>
       /\ sqlLast'.sent
       /\ sqlLast'.outcome = "ok"
       /\ sqlLast'.op \in {"InsertUser", "CleanUp", "DeleteForUser"}
       /\ sqlLast'.op = "InsertUser" =>
            /\ dbUsers'.nextID = dbUsers.nextID + 1
            /\ DOMAIN dbUsers'.rows = (DOMAIN dbUsers.rows) \cup {dbUsers.nextID}
            /\ \A i \in DOMAIN dbUsers.rows : dbUsers'.rows[i] = dbUsers.rows[i]
       /\ sqlLast'.op = "CleanUp" =>
            LET Expired(s) == s.ExpireDate.sqlTime <= sqlLast'.ref
            IN dbSessions' = Without(dbSessions, Expired)
       /\ sqlLast'.op = "DeleteForUser" =>
            LET Owned(s) == s.User = sqlLast'.id
            IN dbSessions' = Without(dbSessions, Owned)]_vars

\* A CleanUp whose sweep removed one of two sessions, the one that expires at
\* the reference date, and whose count the driver cannot report.
C15_Witness ==
  /\ sqlLast.op = "CleanUp"
  /\ sqlLast.ret.type = "NotSupported"
  /\ sqlLast.ref = 4
  /\ sqlLast.rows = 1
  /\ DOMAIN dbSessions = {"k2"}
  /\ dbSessions["k2"].ExpireDate = ConvertTime(5)

\* The field list names the field (in any letter case).
Names(fields, field) ==
  \E i \in DOMAIN fields : ToLower(fields[i]) = ToLower(field)

\* C16: after a successful MemdummyUserStorage.InsertUser the stored user has
\* DateJoined equal to the insert instant and LastLogin equal to the zero
\* instant, whatever times the caller's model carried; and a user that stays
\* stored keeps both unless the step is an update naming the field.
C16_EngineTimestamps ==
  [][/\ (last'.op = "InsertUser" /\ last'.err = "nil") =>
          /\ idMapping'[last'.ret].DateJoined \in NowTimes
          /\ idMapping'[last'.ret].LastLogin = ZeroTime
     /\ \A id \in (DOMAIN idMapping) \cap (DOMAIN idMapping') :
          \A f \in {"DateJoined", "LastLogin"} :
            idMapping'[id][f] # idMapping[id][f] =>
              (last'.op = "UpdateUser" /\ Names(last'.fields, f))]_vars

\* C17: InsertSession of an entry whose Key is stored returns SessionExists
\* and leaves the stored entry as it is; and the store holds at most one
\* entry per key: the entry found under a key carries that key.
C17_SessionKeyUniqueness ==
  [][/\ (sessLast'.op = "InsertSession" /\ sessLast'.key \in DOMAIN keyMapping) =>
          /\ sessLast'.err = NewSessionExistsKey(sessLast'.key)
          /\ keyMapping' = keyMapping
     /\ \A k \in DOMAIN keyMapping' : keyMapping'[k].Key = k]_vars

\* A second insert under the key A, with another owner and expire date than
\* the stored entry, was refused.
C17_Witness ==
  /\ sessLast.op = "InsertSession"
  /\ sessLast.key = "A"
  /\ sessLast.err.type = "SessionExists"
  /\ "A" \in DOMAIN keyMapping
  /\ keyMapping["A"].User # sessLast.passed.User
  /\ keyMapping["A"].ExpireDate # sessLast.passed.ExpireDate

\* What GetSession of key has to return when the sessions inserted and not
\* removed since are those of inserted.
LooksUp(found, entry, err, key, inserted) ==
  IF key \in DOMAIN inserted
    THEN /\ found
         /\ err = Nil
         /\ entry.Key = key
         /\ entry.User = inserted[key].User
         /\ entry.ExpireDate = inserted[key].ExpireDate
    ELSE /\ ~found
         /\ err = NewNoSuchSessionKey(key)

\* C18: GetSession(k) returns an entry with the Key, User and ExpireDate
\* that were inserted when a session with key k was inserted and not removed
\* since by DeleteSession, CleanUp, DeleteForUser or Clear, and the nil entry
\* with the NoSuchSession error naming k in every other state, in the
\* in-memory store and in the SQL storage.
C18_SessionLookup ==
  /\ sessLast.op = "GetSession" =>
       LooksUp(sessLast.found, sessLast.entry, sessLast.err, sessLast.key, live)
  /\ sqlLast.op = "GetSession" =>
       LooksUp(sqlModel.found, sqlModel.entry, sqlLast.ret, sqlLast.key, live)

\* C19: DeleteSession(k) returns nil whether or not k is stored; after it
\* GetSession(k) reports NoSuchSession, and every session with another key is
\* stored as before.
C19_SessionDelete ==
  [][sessLast'.op = "DeleteSession" =>
       /\ sessLast'.err = Nil
       /\ MemdummySession_GetSession(keyMapping', sessLast'.key).err
            = NewNoSuchSessionKey(sessLast'.key)
       /\ ~MemdummySession_GetSession(keyMapping', sessLast'.key).found
       /\ \A k \in MemKeys \ {sessLast'.key} :
            MemdummySession_GetSession(keyMapping', k)
              = MemdummySession_GetSession(keyMapping, k)]_vars

\* A DeleteSession of the key C, which is not among the sessions inserted and
\* not removed, while A and B stay stored.
C19_Witness ==
  /\ sessLast.op = "DeleteSession"
  /\ sessLast.key = "C"
  /\ sessLast.err = Nil
  /\ DOMAIN keyMapping = {"A", "B"}
  /\ keyMapping["A"].User # keyMapping["B"].User

\* C20: CleanUp(ref) removes exactly the stored sessions with ExpireDate at or
\* before ref, returns how many it removed and leaves every session with
\* ExpireDate after ref stored and retrievable by key; with three sessions of
\* three users that expire at d1 < d2 < ref < d3 it returns 2 and the third
\* session remains.
C20_ExpirySweep ==
  [][sessLast'.op = "CleanUp" =>
       LET ref == sessLast'.ref
           expired == {k \in DOMAIN keyMapping : keyMapping[k].ExpireDate <= ref}
       IN /\ sessLast'.err = Nil
          /\ DOMAIN keyMapping' = (DOMAIN keyMapping) \ expired
          /\ sessLast'.n = Cardinality(expired)
          /\ \A k \in (DOMAIN keyMapping) \ expired :
               /\ keyMapping'[k] = keyMapping[k]
               /\ MemdummySession_GetSession(keyMapping', k).found
               /\ MemdummySession_GetSession(keyMapping', k).entry = keyMapping[k]
          /\ (/\ ref = 3
              /\ DOMAIN keyMapping = {"A", "B", "C"}
              /\ keyMapping["A"].User = 1 /\ keyMapping["A"].ExpireDate = 1
              /\ keyMapping["B"].User = 2 /\ keyMapping["B"].ExpireDate = 2
              /\ keyMapping["C"].User = 3 /\ keyMapping["C"].ExpireDate = 4) =>
               /\ sessLast'.n = 2
               /\ DOMAIN keyMapping' = {"C"}]_vars

\* A sweep at the reference date 3 that removed two sessions and left the
\* session of user 3, which expires at 4, under the key C.
C20_Witness ==
  /\ sessLast.op = "CleanUp"
  /\ sessLast.ref = 3
  /\ sessLast.n = 2
  /\ sessLast.err = Nil
  /\ DOMAIN keyMapping = {"C"}
  /\ keyMapping["C"].User = 3
  /\ keyMapping["C"].ExpireDate = 4

\* C21: DeleteForUser(u) removes exactly the stored sessions whose User is u,
\* returns how many it removed (0 when u owns none) and leaves the sessions
\* of every other user stored unchanged. In the SQL storage this is what an
\* executed statement does, the count being returned when the driver reports
\* it; a statement that fails removes nothing.
C21_DeleteForUser ==
  [][/\ sessLast'.op = "DeleteForUser" =>
          LET owned == {k \in DOMAIN keyMapping :
                          keyMapping[k].User = sessLast'.user}
          IN /\ sessLast'.err = Nil
             /\ sessLast'.n = Cardinality(owned)
             /\ DOMAIN keyMapping' = (DOMAIN keyMapping) \ owned
             /\ \A k \in (DOMAIN keyMapping) \ owned :
                  keyMapping'[k] = keyMapping[k]
     /\ sqlLast'.op = "DeleteForUser" =>
          LET owned == {k \in DOMAIN dbSessions :
                          dbSessions[k].User = sqlLast'.id}
          IN IF sqlLast'.outcome = "ok"
               THEN /\ DOMAIN dbSessions' = (DOMAIN dbSessions) \ owned
                    /\ \A k \in (DOMAIN dbSessions) \ owned :
                         dbSessions'[k] = dbSessions[k]
                    /\ sqlLast'.ret = Nil => sqlLast'.n = Cardinality(owned)
                    /\ sqlLast'.ret # Nil => sqlLast'.ret.type = "NotSupported"
               ELSE /\ dbSessions' = dbSessions
                    /\ sqlLast'.ret = BackendErr(sqlLast'.outcome)]_vars

\* A DeleteForUser(2) on the in-memory store that removed the two sessions of
\* user 2 and left the session of user 3.
C21_Witness ==
  /\ sessLast.op = "DeleteForUser"
  /\ sessLast.user = 2
  /\ sessLast.n = 2
  /\ DOMAIN keyMapping = {"C"}
  /\ keyMapping["C"].User = 3

\* C22: s.IsValid(r) is true if and only if r is strictly before
\* s.ExpireDate; it is false when r equals the ExpireDate and when r is after
\* it.
C22_ValidityBoundary ==
  pure.op = "IsValid" =>
    /\ pure.valid <=> (pure.referenceDate < pure.s.ExpireDate)
    /\ pure.referenceDate = pure.s.ExpireDate => ~pure.valid
    /\ pure.referenceDate > pure.s.ExpireDate => ~pure.valid

\* IsValid at the ExpireDate itself was found false.
C22_Witness ==
  /\ pure.op = "IsValid"
  /\ pure.s.ExpireDate = 4
  /\ pure.referenceDate = 4
  /\ ~pure.valid

\* The InsertSession calls and the GenSessionKey calls of the log, in order.
InsertCalls == SelectSeq(retry.log, LAMBDA c : c.op = "InsertSession")

KeyCalls == SelectSeq(retry.log, LAMBDA c : c.op = "GenSessionKey")

\* C23: RetrySessionInsert(storage, session, N) calls InsertSession at most N
\* times; if all N attempts fail with SessionExists it returns a
\* RetryInsertErr with exactly those N errors in their order; if attempt k
\* succeeds it returns nil after exactly k calls (a negative N allows no
\* call).
C23_BoundedRetry ==
  /\ Len(InsertCalls) <= (IF retry.numTries > 0 THEN retry.numTries ELSE 0)
  /\ retry.pc = "done" =>
       /\ (/\ Len(InsertCalls) = retry.numTries
           /\ \A j \in 1..Len(InsertCalls) :
                InsertCalls[j].err.type = "SessionExists") =>
            retry.ret = NewRetryInsertErr([j \in 1..retry.numTries |->
                                            InsertCalls[j].err])
       /\ \A k \in 1..Len(InsertCalls) :
            InsertCalls[k].err = Nil =>
              (retry.ret = Nil /\ Len(InsertCalls) = k)

\* A call of the log that failed otherwise than by a collision.
Fatal(c) ==
  \/ c.op = "InsertSession" /\ c.err # Nil /\ c.err.type # "SessionExists"
  \/ c.op = "GenSessionKey" /\ c.err # Nil

\* C24: in RetrySessionInsert an InsertSession error that is not
\* SessionExists, and a failure of GenSessionKey, is returned unchanged; no
\* InsertSession call follows it; it is neither a RetryInsertErr nor one of
\* the collected errors.
C24_RetryStopsOnFailure ==
  /\ \A j \in 1..Len(retry.log) :
       Fatal(retry.log[j]) =>
         /\ j = Len(retry.log)
         /\ retry.pc = "done"
         /\ retry.ret = retry.log[j].err
         /\ retry.ret.type # "RetryInsertErr"
  /\ \A j \in 1..Len(retry.errs) : retry.errs[j].type = "SessionExists"

\* With numTries = 3 the second attempt failed with a backend error after one
\* collision: two InsertSession calls, and that error returned.
C24_Witness ==
  /\ retry.pc = "done"
  /\ retry.numTries = 3
  /\ Len(InsertCalls) = 2
  /\ InsertCalls[1].err.type = "SessionExists"
  /\ InsertCalls[2].err = BackendErr("e1")
  /\ retry.ret = BackendErr("e1")

\* The keys GenSessionKey returned to the retry loop, in order.
GeneratedKeys == SelectSeq(KeyCalls, LAMBDA c : c.err = Nil)

\* C30: when RetrySessionInsert has returned, every key it generated was
\* passed to InsertSession, the number of generated keys is the number of
\* InsertSession calls minus one, and on a RetryInsertErr the Key of the
\* entry is a key whose insertion was attempted and collided.
C30_GeneratedKeysAreTried ==
  (retry.pc = "done" /\ Len(InsertCalls) > 0) =>
    /\ Len(GeneratedKeys) = Len(InsertCalls) - 1
    /\ \A g \in 1..Len(GeneratedKeys) :
         InsertCalls[g + 1].key = GeneratedKeys[g].key
    /\ retry.ret.type = "RetryInsertErr" =>
         \E j \in 1..Len(InsertCalls) :
           /\ InsertCalls[j].key = retry.key
           /\ InsertCalls[j].err = NewSessionExistsKey(retry.key)

\* The backend failures the duplicate test used by an operation accepts:
\* IsDuplicateInsert in InsertUser, IsDuplicateUpdate in UpdateUser and
\* InsertSession, no test in the other operations.
Classified(op) ==
  CASE op = "InsertUser" -> sqlConf.bridge.IsDuplicateInsert
    [] op \in {"UpdateUser", "InsertSession"} -> sqlConf.bridge.IsDuplicateUpdate
    [] OTHER -> {}

\* C28: when the backend fails to execute the statement of InsertUser,
\* UpdateUser, DeleteUser, InsertSession, DeleteSession, CleanUp or
\* DeleteForUser and the duplicate test of the operation does not accept the
\* failure, the operation returns that failure itself, and the tables are as
\* before the call: the statement was not executed by a further attempt.
C28_UnclassifiedFailurePassesThrough ==
  [][ (/\ sqlLast'.op \in {"InsertUser", "UpdateUser", "DeleteUser",
                           "InsertSession", "DeleteSession", "CleanUp",
                           "DeleteForUser"}
       /\ sqlLast'.sent
       /\ sqlLast'.outcome # "ok"
       /\ sqlLast'.outcome \notin Classified(sqlLast'.op))
      => /\ sqlLast'.ret = BackendErr(sqlLast'.outcome)
         /\ dbUsers' = dbUsers
         /\ dbSessions' = dbSessions ]_vars

\* An InsertSession on a table that has a session failed with a failure the
\* bridge, which accepts another one as a duplicate, does not accept.
C28_Witness ==
  /\ sqlLast.op = "InsertSession"
  /\ sqlLast.outcome = "e2"
  /\ sqlConf.bridge.IsDuplicateUpdate = {"e1"}
  /\ sqlLast.ret = BackendErr("e2")
  /\ sqlLast.key = "k2"
  /\ DOMAIN dbSessions = {"k1"}

\* C25: two SQLTemplateReplacer objects that hold the same entries, however
\* they were configured, give the same result of Apply for every template,
\* also when one key is a prefix of another key.
C25_ApplyDeterministic ==
  tmpl.t.entries = tmpl.other.entries =>
    \A templateStr \in TemplateStrings :
      SQLTemplateReplacer_Apply(tmpl.t, templateStr)
        = SQLTemplateReplacer_Apply(tmpl.other, templateStr)

\* What one pass over s from left to right can give with the entries: where
\* keys are a prefix of what is left, one of them is replaced by its value
\* and the pass goes on behind the key in s; where none is, the character is
\* copied. Nothing the pass wrote is read again.
RECURSIVE SinglePass(_, _)
SinglePass(entries, s) ==
  IF s = << >> THEN {<< >>}
  ELSE LET hits == {k \in DOMAIN entries : HasPrefix(s, k)} IN
       IF hits = {}
         THEN {<<s[1]>> \o r : r \in SinglePass(entries, Tail(s))}
         ELSE UNION {{entries[k] \o r :
                        r \in SinglePass(entries,
                                         SubSeq(s, Len(k) + 1, Len(s)))} :
                     k \in hits}

\* C26: Apply replaces the keys found in the template in one pass from left
\* to right without overlapping matches and does not read again what a
\* replacement wrote: with $A$ -> $B$ and $B$ -> x, Apply("$A$") is "$B$".
C26_SinglePassSubstitution ==
  tmpl.last.op = "Apply" =>
    /\ tmpl.last.result \in SinglePass(tmpl.t.entries, tmpl.last.templateStr)
    /\ (/\ tmpl.t.entries = (KeyA :> KeyB) @@ (KeyB :> <<"x">>)
        /\ tmpl.last.templateStr = KeyA)
       => tmpl.last.result = KeyB

\* Apply("$A$") was called with the entries $A$ -> $B$ and $B$ -> x and
\* returned "$B$".
C26_Witness ==
  /\ tmpl.last.op = "Apply"
  /\ tmpl.t.entries = (KeyA :> KeyB) @@ (KeyB :> <<"x">>)
  /\ tmpl.last.templateStr = KeyA
  /\ tmpl.last.result = KeyB

\* The key / value pairs a strings.Replacer was made of.
Compiled(t) ==
  {<<t.replacer[2 * i - 1], t.replacer[2 * i]>> :
     i \in 1..(Len(t.replacer) \div 2)}

\* C27: after any calls of Set, SetMany, UpdateDict, Update, Delete and
\* DeleteMany the entries of the replacer are those of a map on which the
\* same operations were made; Update leaves the other replacer as it is; a
\* SetMany with an odd number of arguments panics and changes nothing;
\* HasKey is true for the current keys and no other; Apply replaces
\* according to the current entries, the strings.Replacer being made of
\* exactly these.
C27_PlainMap ==
  [][ /\ tmpl'.t.entries = tmpl'.abstract
      /\ Compiled(tmpl'.t) = {<<k, tmpl'.abstract[k]>> : k \in DOMAIN tmpl'.abstract}
      /\ Len(tmpl'.t.replacer) = 2 * Cardinality(DOMAIN tmpl'.abstract)
      /\ tmpl'.other = tmpl.other
      /\ tmpl'.last.op = "SetMany" =>
           /\ tmpl'.last.panic = tmpl'.last.odd
           /\ tmpl'.last.odd => tmpl'.t = tmpl.t
      /\ tmpl'.last.op = "HasKey" =>
           /\ tmpl'.last.has = (tmpl'.last.key \in DOMAIN tmpl'.abstract)
           /\ tmpl'.t = tmpl.t
      /\ tmpl'.last.op = "Apply" =>
           /\ tmpl'.last.result
                \in SinglePass(tmpl'.abstract, tmpl'.last.templateStr)
           /\ tmpl'.t = tmpl.t ]_vars

\* A SetMany with an odd number of arguments panicked on a replacer that
\* has the entries $A$ -> $B$ and $B$ -> x.
C27_Witness ==
  /\ tmpl.last.op = "SetMany"
  /\ tmpl.last.panic
  /\ tmpl.t.entries = (KeyA :> KeyB) @@ (KeyB :> <<"x">>)
  /\ tmpl.other.entries = (KeyB :> <<"x">>)

\* The 6 bit value of a character of the URL-safe alphabet.
SextetOf(c) == (CHOOSE i \in 1..64 : encodeURL[i] = c) - 1

\* The bytes that a string of characters of the URL-safe alphabet stands
\* for: three for every four characters, two for three characters that are
\* left and one for two.
RECURSIVE DecodedBytes(_)
DecodedBytes(k) ==
  LET V(n) == SextetOf(k[n]) IN
  CASE Len(k) < 2 -> << >>
    [] Len(k) = 2 -> <<(V(1) * 64 + V(2)) \div 16>>
    [] Len(k) = 3 ->
         LET val == V(1) * 4096 + V(2) * 64 + V(3)
         IN <<val \div 1024, (val \div 4) % 256>>
    [] OTHER ->
         LET val == V(1) * 262144 + V(2) * 4096 + V(3) * 64 + V(4)
         IN <<val \div 65536, (val \div 256) % 256, val % 256>>
            \o DecodedBytes(SubSeq(k, 5, Len(k)))

\* A key GenSessionKey can return for the bytes read: 39 characters of the
\* URL-safe alphabet, none of them the padding character, that stand for
\* the 29 bytes.
IsKeyOf(key, randBytes) ==
  /\ Len(randBytes) = 29
  /\ Len(key) = 39
  /\ \A i \in 1..Len(key) :
       /\ \E j \in 1..64 : encodeURL[j] = key[i]
       /\ key[i] # "="
  /\ DecodedBytes(key) = randBytes

\* C29: a key that GenSessionKey returns without error is the unpadded
\* URL-safe base64 encoding of the 29 bytes read, has length 39 and only
\* characters of the URL-safe alphabet; when the random source fails the
\* empty string and the error of the source are returned, and
\* NewSessionWithKey returns a nil entry and that error.
C29_SessionKeyFormat ==
  /\ pure.op = "GenSessionKey" =>
       IF pure.read.genErr = Nil
         THEN pure.ret.err = Nil /\ IsKeyOf(pure.ret.key, pure.read.randBytes)
         ELSE pure.ret = [key |-> << >>, err |-> pure.read.genErr]
  /\ pure.op = "NewSessionWithKey" =>
       IF pure.read.genErr = Nil
         THEN /\ pure.ret.err = Nil
              /\ ~pure.ret.isNil
              /\ IsKeyOf(pure.ret.entry.Key, pure.read.randBytes)
              /\ pure.ret.entry.User = pure.user
              /\ pure.ret.entry.ExpireDate = pure.expireDate
         ELSE pure.ret.isNil /\ pure.ret.err = pure.read.genErr

\* GenSessionKey returned the key of 28 bytes 255 and a last byte 1: 37
\* times "_", then "w", then "E".
C29_Witness ==
  /\ pure.op = "GenSessionKey"
  /\ pure.read.genErr = Nil
  /\ pure.read.randBytes = [i \in 1..29 |-> IF i = 29 THEN 1 ELSE 255]
  /\ pure.ret.key = [i \in 1..39 |-> IF i = 39 THEN "E"
                                     ELSE IF i = 38 THEN "w" ELSE "_"]

\* C31: SQLSessionStorage.InsertSession returns SessionExists with the key of
\* the entry exactly when Exec fails and IsDuplicateInsert of the bridge
\* accepts the failure, also with a bridge whose two duplicate tests
\* disagree.
C31_SessionInsertClassifier ==
  (sqlLast.op = "InsertSession" /\ sqlLast.sent) =>
    (sqlLast.ret = NewSessionExistsKey(sqlLast.key)
       <=> (/\ sqlLast.outcome # "ok"
            /\ sqlLast.outcome \in sqlConf.bridge.IsDuplicateInsert))

\* The parameter for a field name of an update: the value the model has in
\* the field whose name is the given one but for the letter case, the two
\* time fields in the encoding of the bridge.
ParameterFor(m, name) ==
  LET F == CHOOSE f \in NonIDFields \cup {"ID"} : ToLower(f) = ToLower(name)
  IN IF F \in {"DateJoined", "LastLogin"} THEN ConvertTime(m[F]) ELSE m[F]

IsFieldName(name) ==
  \E f \in NonIDFields \cup {"ID"} : ToLower(f) = ToLower(name)

\* C32: with a provider that supports field lists and a list of field names
\* that is not empty, UpdateUser asks the provider for the statement of
\* these fields and passes one parameter for every name, in the order of the
\* names, and the id as the last; with a provider that does not, it asks for
\* the statement of no fields; then, and with an empty list, the parameters
\* are the ten fields in the default order and the id.
C32_UpdateParameterLayout ==
  sqlLast.op = "UpdateUser" =>
    LET fields == sqlLast.fields
        m == sqlModel.passed
        supports == sqlConf.SupportsUserFields
    IN /\ sqlModel.stmt = Stmt("UpdateUser", IF supports THEN fields ELSE << >>)
       /\ (/\ supports
           /\ fields # << >>
           /\ \A i \in 1..Len(fields) : IsFieldName(fields[i]))
          => /\ sqlLast.sent
             /\ Len(sqlModel.args) = Len(fields) + 1
             /\ \A i \in 1..Len(fields) :
                  sqlModel.args[i] = ParameterFor(m, fields[i])
             /\ sqlModel.args[Len(fields) + 1] = sqlLast.id
       /\ (~supports \/ fields = << >>)
          => /\ sqlLast.sent
             /\ sqlModel.args
                  = <<m.Username, m.Password, m.EMail, m.FirstName, m.LastName,
                      m.IsSuperUser, m.IsStaff, m.IsActive,
                      ConvertTime(m.DateJoined), ConvertTime(m.LastLogin),
                      sqlLast.id>>

\* An update of user 2 with the fields DateJoined and lastlogin of a model
\* that has the instants 1 and 3 there, with a provider that supports field
\* lists.
C32_Witness ==
  /\ sqlLast.op = "UpdateUser"
  /\ sqlConf.SupportsUserFields
  /\ sqlLast.fields = <<"DateJoined", "lastlogin">>
  /\ sqlLast.id = 2
  /\ sqlModel.args = <<ConvertTime(1), ConvertTime(3), 2>>
  /\ sqlLast.ret = Nil

\* C33: after DeleteUser(id) returned nil, GetUser(id) reports NoSuchUser,
\* GetUserByName and GetUserByEmail report NoSuchUser for every username and
\* e-mail the user has had unless another stored user holds it, and the
\* other stored users are returned by id, username and e-mail as before.
C33_DeletedUserIsGone ==
  [][ (last'.op = "DeleteUser" /\ last'.err = "nil") =>
        LET id == last'.id
            after == Store(idMapping', nameMapping', mailMapping', nextID')
            others == (DOMAIN idMapping) \ {id}
        IN /\ GetUser(after, id).err = "NoSuchUser"
           /\ id \in DOMAIN held =>
                /\ \A n \in held[id].names :
                     \/ GetUserByName(after, n).err = "NoSuchUser"
                     \/ \E j \in others : idMapping[j].Username = n
                /\ \A e \in held[id].mails :
                     \/ GetUserByEmail(after, e).err = "NoSuchUser"
                     \/ \E j \in others : idMapping[j].EMail = e
           /\ \A j \in others :
                /\ GetUser(after, j) = GetUser(CurStore, j)
                /\ GetUserByName(after, idMapping[j].Username)
                     = GetUserByName(CurStore, idMapping[j].Username)
                /\ GetUserByEmail(after, idMapping[j].EMail)
                     = GetUserByEmail(CurStore, idMapping[j].EMail) ]_vars

\* C34: in every state of the MemdummyUserStorage the model stored under an
\* id, which is the model GetUser returns for it, has that id in its ID
\* field, also after an UpdateUser with a model that has another ID.
C34_StoredIDNeverChanges ==
  \A i \in DOMAIN idMapping :
    /\ idMapping[i].ID = i
    /\ GetUser(CurStore, i).user.ID = i

\* C35: the three indexes of the MemdummyUserStorage describe the same
\* users: the username index has an entry for exactly the usernames of the
\* users of the id index, the e-mail index for exactly their e-mails, and
\* these entries are the models of the id index.
C35_IndexConsistency ==
  /\ DOMAIN nameMapping = {idMapping[i].Username : i \in DOMAIN idMapping}
  /\ DOMAIN mailMapping = {idMapping[i].EMail : i \in DOMAIN idMapping}
  /\ \A i \in DOMAIN idMapping :
       /\ GetUserByName(CurStore, idMapping[i].Username) = GetUser(CurStore, i)
       /\ GetUserByEmail(CurStore, idMapping[i].EMail) = GetUser(CurStore, i)

\* C36: InsertUser returns UserExists only when a stored user has the
\* username or the e-mail of the passed model, and UpdateUser returns
\* AmbiguousCredentials only when a stored user other than the updated one
\* has it; a username or e-mail that no stored user has any more can be
\* taken.
C36_NoFalseRejection ==
  [][ /\ (last'.op = "InsertUser" /\ last'.err = "UserExists") =>
           \E j \in DOMAIN idMapping :
             \/ idMapping[j].Username = last'.name
             \/ idMapping[j].EMail = last'.mail
      /\ (last'.op = "UpdateUser" /\ last'.err = "AmbiguousCredentials") =>
           \E j \in (DOMAIN idMapping) \ {last'.id} :
             \/ idMapping[j].Username = last'.name
             \/ idMapping[j].EMail = last'.mail ]_vars

\* C37: what the MemdummySessionStorage holds changes only through its own
\* operations: whatever callers write into entries they passed to
\* InsertSession or were returned by GetSession, GetSession returns every
\* session that was inserted and not removed as it was inserted.
C37_NoAliasing ==
  \A k \in DOMAIN live :
    /\ MemdummySession_GetSession(keyMapping, k).found
    /\ MemdummySession_GetSession(keyMapping, k).entry = live[k]

\* C39: RetrySessionInsert returns nil if and only if one of its
\* InsertSession calls returned nil; that call is the last call it makes,
\* and the entry carries the Key that was passed to it; with numTries <= 0 no
\* insertion is attempted and a non-nil error is returned.
C39_RetrySuccessIsFaithful ==
  /\ \A j \in 1..Len(retry.log) :
       (retry.log[j].op = "InsertSession" /\ retry.log[j].err = Nil) =>
         /\ j = Len(retry.log)
         /\ retry.pc = "done"
         /\ retry.ret = Nil
         /\ retry.key = retry.log[j].key
  /\ retry.pc = "done" =>
       /\ retry.ret = Nil => \E j \in 1..Len(InsertCalls) :
                                InsertCalls[j].err = Nil
       /\ retry.numTries <= 0 =>
            (Len(InsertCalls) = 0 /\ retry.ret # Nil)

\* With numTries = 3 the first key collided and the generated key g1 was
\* inserted: nil returned, the entry carries g1.
C39_Witness ==
  /\ retry.pc = "done"
  /\ retry.numTries = 3
  /\ Len(retry.log) = 3
  /\ retry.log[1].err = NewSessionExistsKey(FirstKey)
  /\ retry.log[3] = [op |-> "InsertSession", key |-> "g1", err |-> Nil]
  /\ retry.ret = Nil
  /\ retry.key = "g1"

\* The classes of the list that match a rune of the password.
MatchingClasses ==
  {i \in 1..Len(counter.classes) :
     \E k \in 1..Len(counter.asRunes) :
       ClassMatches(counter.classes[i], counter.asRunes[k])}

\* When ClassCounter has returned, every goroutine it started has finished,
\* the result is the number of matching classes, as the sequential revision
\* computes it, and the verifier is true exactly if every class matches.
CounterResult ==
  counter.pc = "done" =>
    /\ Len(counter.g) = Len(counter.classes)
    /\ \A j \in 1..Len(counter.g) : counter.g[j].pc = "finished"
    /\ counter.ret = Cardinality(MatchingClasses)
    /\ counter.ret = ClassCounter_Sequential(counter.classes, counter.asRunes)
    /\ counter.ok <=> (MatchingClasses = 1..Len(counter.classes))

\* C40: ClassCounter terminates under every interleaving, with every
\* started goroutine finished, and returns the number of classes that match
\* a rune of s, as the sequential implementation does; the verifier of
\* PWContainsAll is true exactly if every class matches a rune of the
\* password.
C40_ConcurrentClassCounting ==
  /\ []CounterResult
  /\ (counter.pc # "idle") ~> (counter.pc = "done")

\* Lower and digit class on the password "aZ": ClassCounter returned 1
\* after two goroutines finished, and the verifier false.
C40_Witness ==
  /\ counter.pc = "done"
  /\ counter.classes = <<"LowerLetterClass", "DigitClass">>
  /\ counter.asRunes = <<97, 90>>
  /\ counter.i = 2
  /\ counter.ret = 1
  /\ ~counter.ok

\* The calls that returned, in the order of their returns, and the inserts
\* among them that returned no error.
ReturnedCall(j) == conc.log[j]

Inserted(j) ==
  IF ReturnedCall(j).op = "InsertUser" THEN ReturnedCall(j).ret.err = "nil"
  ELSE ReturnedCall(j).op = "InsertSession" /\ ReturnedCall(j).ret.err = Nil

\* The insert of the return j was refused because of its username or key.
Collided(j) ==
  IF ReturnedCall(j).op = "InsertUser"
    THEN ReturnedCall(j).ret.err = "UserExists"
    ELSE /\ ReturnedCall(j).op = "InsertSession"
         /\ ReturnedCall(j).ret.err
              = NewSessionExistsKey(ReturnedCall(j).arg.session.Key)

\* The username or the session key of an insert.
InsertKey(c) ==
  IF c.op = "InsertUser" THEN c.arg.user.Username ELSE c.arg.session.Key

\* A call between the returns i and j that removes from the store.
RemovedBetween(i, j) ==
  \E k \in (i + 1)..(j - 1) : ReturnedCall(k).op = "DeleteUser"

\* Every call returns what it returns when the calls run one after the
\* other in the order of their locks, and leaves the store that order
\* leaves; the mutex is held by the goroutines inside a call and by one
\* writer at most; of two inserts of one username or key with no removing
\* call between them at most one succeeds, and of two that are the only
\* calls exactly one; the ids of successful inserts grow, also over a
\* DeleteUser.
ConcurrentCallsAreAtomic ==
  /\ \A j \in 1..Len(conc.log) : ReturnedCall(j).ret = ReturnedCall(j).alone
  /\ conc.mutex.w = {} => conc.st = conc.seq
  /\ Cardinality(conc.mutex.w) <= 1
  /\ conc.mutex.w # {} => conc.mutex.r = {}
  /\ \A p \in Procs :
       (p \in conc.mutex.w \cup conc.mutex.r)
         <=> conc.procs[p].pc \in {"test", "store", "body", "unlock"}
  /\ \A i, j \in 1..Len(conc.log) :
       (/\ i < j
        /\ ReturnedCall(i).op = ReturnedCall(j).op
        /\ ReturnedCall(i).op \in {"InsertUser", "InsertSession"}
        /\ InsertKey(ReturnedCall(i)) = InsertKey(ReturnedCall(j))) =>
         /\ ~RemovedBetween(i, j) => ~(Inserted(i) /\ Inserted(j))
         /\ Len(conc.log) = 2 =>
              (Inserted(i) /\ Collided(j))
  /\ \A i, j \in 1..Len(conc.log) :
       (/\ i < j
        /\ ReturnedCall(i).op = "InsertUser" /\ Inserted(i)
        /\ ReturnedCall(j).op = "InsertUser" /\ Inserted(j)) =>
         ReturnedCall(i).ret.id < ReturnedCall(j).ret.id

\* C38: the calls of concurrent goroutines on one MemdummyUserStorage or
\* MemdummySessionStorage take effect one at a time under the mutex, with the
\* outcome of a sequential order of the calls: of two concurrent inserts of
\* one Username or Key exactly one succeeds, successful inserts get distinct
\* ids that a delete does not free, and every call returns with the mutex
\* released.
C38_AtomicUnderConcurrency ==
  /\ []ConcurrentCallsAreAtomic
  /\ (\E p \in Procs : UnderWay(conc.procs[p]))
       ~> (\A p \in Procs : ~UnderWay(conc.procs[p]))

\* Two goroutines called InsertUser with the username a while the other's
\* call was under way: one got id 1, the other UserExists.
C38_Witness ==
  /\ Len(conc.log) = 2
  /\ ReturnedCall(1).p # ReturnedCall(2).p
  /\ ReturnedCall(2).met = {ReturnedCall(1).p}
  /\ ReturnedCall(1).op = "InsertUser" /\ ReturnedCall(2).op = "InsertUser"
  /\ ReturnedCall(1).arg.user.Username = "a"
  /\ ReturnedCall(2).arg.user.Username = "a"
  /\ ReturnedCall(1).ret = [id |-> 1, err |-> "nil"]
  /\ ReturnedCall(2).ret = [id |-> InvalidUserID, err |-> "UserExists"]
  /\ conc.mutex = [w |-> {}, r |-> {}]

====
